---------------------------- MODULE Spec2Model ----------------------------
(***************************************************************************)
(* Model of cst_vba_compiler's VbaWriter (src/cst_vba_compiler/writer.py):  *)
(* the text sink, the indentation depth, the parameter table keyed by      *)
(* (name, scope) and the current scope, with one action per public method. *)
(*                                                                         *)
(* Text is a sequence of tokens; a token is a TLA+ string holding either a *)
(* literal fragment of the source or one character of a value.  String     *)
(* concatenation is \o.  Python values are records [kind, v].              *)
(***************************************************************************)
EXTENDS Integers, Sequences, FiniteSets, TLC

VARIABLES
    filehandle,     \* the chunks written to self.__filehandle, in order
    closed,         \* self.__filehandle.closed: the sink rejects writes
    indent_depth,   \* self.__indent_depth
    parameters,     \* self.__parameters: (name, scope) -> [value, type]
    current_scope,  \* self.__current_scope
    raised,         \* the exception the last call raised, NoError if none
    call,           \* the pure function or emitter called last, its argument
    ret             \* what that pure function returned

vars == <<filehandle, closed, indent_depth, parameters, current_scope,
          raised, call, ret>>

-----------------------------------------------------------------------------
(* Bounds of the model. *)

\* lines a writer may hold (after the header) before a further call, in Spec
MaxLines == 3
\* the same for the block-structure specification
MaxBlockLines == 5
\* the same for the scope specification
MaxScopeLines == 7
\* length of the texts given to the pure formatting functions
MaxTextLen == 3
\* lines a writer may hold before a further call, on a sink that fails
MaxIOLines == 2
\* the most writes a failing sink still takes during one call
MaxAccepts == 1
\* lines a writer may hold before a further call, in the emitters'
\* specification
MaxEmitLines == 2
\* length of the lists of numbers given to num_or_list_of_nums_to_str
MaxListLen == 3
\* lines a writer may hold before a further call, in the layout
\* specification
MaxLayoutLines == 2
\* the most connecting points, and interpretations, given to Polygon
MaxPoints == 2

-----------------------------------------------------------------------------
(* Python values. *)

None == "None"
NoneValue == [kind |-> "NoneType", v |-> 0]
PyBool(b) == [kind |-> "bool", v |-> b]
PyInt(i) == [kind |-> "int", v |-> i]
\* a float is held in tenths: PyFloat(35) is 3.5
PyFloat(t) == [kind |-> "float", v |-> t]
PyStr(s) == [kind |-> "str", v |-> s]
PyList == [kind |-> "list", v |-> 0]
\* a tuple or a list of values; items[1] is element 0
PyTuple(items) == [kind |-> "tuple", v |-> items]

\* isinstance(value, cls); bool is a subclass of int
isinstance(value, cls) ==
    \/ value.kind = cls
    \/ cls = "int" /\ value.kind = "bool"

\* the characters of the text values
Quote == "'"
DQuote == "\""
Backslash == "\\"

RECURSIVE Contains(_, _)
Contains(s, c) ==
    IF s = <<>> THEN FALSE
    ELSE IF Head(s) = c THEN TRUE ELSE Contains(Tail(s), c)

\* repr(str): CPython picks the double quote as delimiter when the text has a
\* single quote and no double quote, and escapes the backslash and the delimiter
RECURSIVE escape(_, _)
escape(s, quote) ==
    IF s = <<>> THEN <<>>
    ELSE (IF Head(s) = quote \/ Head(s) = Backslash
            THEN <<Backslash, Head(s)>>
            ELSE <<Head(s)>>) \o escape(Tail(s), quote)

repr_str(s) ==
    LET quote == IF Contains(s, Quote) /\ ~Contains(s, DQuote)
                    THEN DQuote ELSE Quote
    IN  <<quote>> \o escape(s, quote) \o <<quote>>

\* repr(value)
repr(value) ==
    CASE value.kind = "str" -> repr_str(value.v)
      [] value.kind = "bool" -> <<IF value.v THEN "True" ELSE "False">>
      [] value.kind = "int" -> <<ToString(value.v)>>
      [] value.kind = "float" ->
            <<ToString(value.v \div 10), ".", ToString(value.v % 10)>>
      [] value.kind = "NoneType" -> <<"None">>
      [] value.kind = "list" -> <<"[", "]">>

\* str.strip(chars) for a one-character chars
RECURSIVE lstrip(_, _)
lstrip(s, c) ==
    IF s # <<>> /\ Head(s) = c THEN lstrip(Tail(s), c) ELSE s

RECURSIVE rstrip(_, _)
rstrip(s, c) ==
    IF s # <<>> /\ s[Len(s)] = c THEN rstrip(SubSeq(s, 1, Len(s) - 1), c) ELSE s

strip(s, c) == rstrip(lstrip(s, c), c)

\* VbaWriter.string_repr
string_repr(text) ==
    LET text_repr == repr_str(text)
    IN  <<DQuote>> \o strip(text_repr, Quote) \o <<DQuote>>

\* VbaWriter.wrap_double_quotes
wrap_double_quotes(value) == <<DQuote>> \o repr(value) \o <<DQuote>>

\* a wrapper that quotes text values too
wrap_every_value(value) == wrap_double_quotes(value)

\* utils.wrap_nonstr_in_double_quotes: a str is returned as it is
wrap_nonstr_in_double_quotes(value) ==
    IF isinstance(value, "str") THEN value.v ELSE wrap_double_quotes(value)

\* a list whose elements are known; items[1] is element 0
PyListOf(items) == [kind |-> "list", v |-> items]

\* the loop of num_or_list_of_nums_to_str: repr(num) and "," for every num
RECURSIVE comma_after_each(_)
comma_after_each(nums) ==
    IF nums = <<>> THEN <<>>
    ELSE repr(Head(nums)) \o <<",">> \o comma_after_each(Tail(nums))

\* utils.num_or_list_of_nums_to_str
num_or_list_of_nums_to_str(nums) ==
    IF isinstance(nums, "int") THEN wrap_nonstr_in_double_quotes(nums)
    ELSE string_repr(comma_after_each(nums.v))

-----------------------------------------------------------------------------
(* The writer object and its methods, as functions of the object's state. *)

NoError == [kind |-> "none", msg |-> <<>>]
IOError(msg) == [kind |-> "IOError", msg |-> msg]
ValueError(msg) == [kind |-> "ValueError", msg |-> msg]

AssertionError(msg) == [kind |-> "AssertionError", msg |-> msg]

\* accepts: how many more calls of filehandle.write succeed before one
\* raises (a full disk, a broken pipe); Unlimited when none ever does
Unlimited == -1

Self ==
    [filehandle |-> filehandle, closed |-> closed,
     indent_depth |-> indent_depth, parameters |-> parameters,
     current_scope |-> current_scope, raised |-> NoError,
     accepts |-> Unlimited]

\* the writer on a sink that fails at write number k + 1 from now
Accepting(k) == [Self EXCEPT !.accepts = k]

Ok(self) == self.raised = NoError

\* "\t" * n: the empty text when n <= 0
RECURSIVE Tabs(_)
Tabs(n) == IF n <= 0 THEN <<>> ELSE <<"\t">> \o Tabs(n - 1)

\* write that lets a failure of the sink pass in silence
write_swallows_failure(self, text) ==
    IF self.closed \/ self.accepts = 0 THEN self
    ELSE [self EXCEPT !.filehandle =
                Append(@, Tabs(self.indent_depth) \o text),
                      !.accepts = IF @ > 0 THEN @ - 1 ELSE @]

write(self, text) ==
    IF self.closed \/ self.accepts = 0
        THEN [self EXCEPT !.raised =
                IOError(<<"Unable to write contents to ", "filepath", ".">>)]
        ELSE [self EXCEPT !.filehandle =
                Append(@, Tabs(self.indent_depth) \o text),
                          !.accepts = IF @ > 0 THEN @ - 1 ELSE @]

write_essentials(self) == write(self, <<"Option Explicit\n">>)

\* start_main that loses the increment
start_main_keeps_depth(self) ==
    LET s1 == write(self, <<"Sub Main ()\n">>)
    IN  IF ~Ok(s1) THEN s1
        ELSE [s1 EXCEPT !.current_scope = "Main"]

start_main(self) ==
    LET s1 == write(self, <<"Sub Main ()\n">>)
    IN  IF ~Ok(s1) THEN s1
        ELSE [s1 EXCEPT !.current_scope = "Main",
                        !.indent_depth = @ + 1]

\* end_main that writes End Sub before it steps back
end_main_late_decrement(self) ==
    LET s1 == write(self, <<"Save\n">>)
        s2 == write(s1, <<"End Sub\n">>)
    IN  IF ~Ok(s1) THEN s1
        ELSE IF ~Ok(s2) THEN s2
        ELSE [s2 EXCEPT !.indent_depth = @ - 1, !.current_scope = None]

\* end_main that leaves the scope as it was
end_main_keeps_scope(self) ==
    LET s1 == write(self, <<"Save\n">>)
        s2 == [s1 EXCEPT !.indent_depth = @ - 1]
    IN  IF ~Ok(s1) THEN s1 ELSE write(s2, <<"End Sub\n">>)

\* end_main that forgets what the entry point declared
end_main_drops_records(self) ==
    LET s1 == write(self, <<"Save\n">>)
        s2 == [s1 EXCEPT !.indent_depth = @ - 1]
        s3 == write(s2, <<"End Sub\n">>)
        kept == {key \in DOMAIN self.parameters : key[2] # "Main"}
    IN  IF ~Ok(s1) THEN s1
        ELSE IF ~Ok(s3) THEN s3
        ELSE [s3 EXCEPT !.current_scope = None,
                        !.parameters = [key \in kept |-> @[key]]]

end_main(self) ==
    LET s1 == write(self, <<"Save\n">>)
        s2 == [s1 EXCEPT !.indent_depth = @ - 1]
        s3 == write(s2, <<"End Sub\n">>)
    IN  IF ~Ok(s1) THEN s1
        ELSE IF ~Ok(s3) THEN s3
        ELSE [s3 EXCEPT !.current_scope = None]

\* start_with that does not indent the block's body
start_with_keeps_depth(self, structure) ==
    write(self, <<"With ", structure, "\n">>)

start_with(self, structure) ==
    LET s1 == write(self, <<"With ", structure, "\n">>)
    IN  IF ~Ok(s1) THEN s1
        ELSE [s1 EXCEPT !.indent_depth = @ + 1]

\* end_with that loses the decrement
end_with_keeps_depth(self) == write(self, <<"End With\n">>)

end_with(self) ==
    LET s1 == [self EXCEPT !.indent_depth = @ - 1]
    IN  write(s1, <<"End With\n">>)

\* self.__parameters[key] = record
setitem(params, key, record) == (key :> record) @@ params

\* initialise_parameter that keeps the record a declared name has
initialise_parameter_keeps_record(self, name, declare_type) ==
    LET key == <<name, self.current_scope>>
        s1 == IF key \in DOMAIN self.parameters THEN self
              ELSE [self EXCEPT !.parameters =
                        setitem(@, key, [value |-> NoneValue,
                                         type |-> declare_type.name])]
    IN  write(s1, <<"Dim ", name, " As ", declare_type.name, "\n">>)

initialise_parameter(self, name, declare_type) ==
    LET known == declare_type.kind = "str"
                 \/ declare_type.name \in {"bool", "float", "int", "str"}
        vba_type ==
            IF declare_type.kind = "str" THEN declare_type.name
            ELSE CASE declare_type.name = "bool" -> "Boolean"
                   [] declare_type.name = "float" -> "Double"
                   [] declare_type.name = "int" -> "Integer"
                   [] declare_type.name = "str" -> "String"
        s1 == [self EXCEPT !.parameters =
                setitem(@, <<name, self.current_scope>>,
                        [value |-> NoneValue, type |-> vba_type])]
    IN  IF ~known
            THEN [self EXCEPT !.raised = ValueError(
                    <<"The type ", declare_type.name,
                      " does not have supported VBA type conversion.">>)]
            ELSE write(s1, <<"Dim ", name, " As ", vba_type, "\n">>)

\* the text of a value on the right of an assignment
val_vba_content(value) ==
    IF isinstance(value, "str") THEN string_repr(value.v) ELSE repr(value)

\* assign_parameter that looks the name up without its scope
assign_parameter_any_scope(self, name, value) ==
    LET keys == {k \in DOMAIN self.parameters : k[1] = name}
        s1 == [self EXCEPT !.parameters =
                [k \in DOMAIN @ |->
                    IF k \in keys THEN [@[k] EXCEPT !.value = value] ELSE @[k]]]
    IN  IF keys # {}
            THEN write(s1, <<name, " = ">> \o val_vba_content(value) \o <<"\n">>)
            ELSE [self EXCEPT !.raised = ValueError(
                    <<"Parameter ", name, " in scope ", self.current_scope,
                      " did not receive type initialisation.">>)]

\* assign_parameter that writes the line before it looks the name up
assign_parameter_writes_first(self, name, value) ==
    LET key == <<name, self.current_scope>>
        s1 == write(self, <<name, " = ">> \o val_vba_content(value) \o <<"\n">>)
    IN  IF key \in DOMAIN self.parameters
            THEN [s1 EXCEPT !.parameters[key].value = value]
            ELSE [s1 EXCEPT !.raised = ValueError(
                    <<"Parameter ", name, " in scope ", self.current_scope,
                      " did not receive type initialisation.">>)]

assign_parameter(self, name, value) ==
    LET key == <<name, self.current_scope>>
        s1 == [self EXCEPT !.parameters[key].value = value]
    IN  IF key \in DOMAIN self.parameters
            THEN write(s1, <<name, " = ">> \o val_vba_content(value) \o <<"\n">>)
            ELSE [self EXCEPT !.raised = ValueError(
                    <<"Parameter ", name, " in scope ", self.current_scope,
                      " did not receive type initialisation.">>)]

\* a range test that lets 2^15 through
fits_vba_integer_off_by_one(i) == i >= -(2^15) /\ i <= 2^15

\* the 16-bit range test of add_parameter
fits_vba_integer(i) == i >= -(2^15) /\ i <= 2^15 - 1

\* type inference that tests for int before bool
infer_type_int_first(value) ==
    IF isinstance(value, "int") THEN
        IF fits_vba_integer(IF value.kind = "bool" THEN 1 ELSE value.v)
            THEN [type |-> "Integer", raised |-> NoError]
            ELSE [type |-> "", raised |-> ValueError(
                    <<"Size of value: ", ToString(value.v),
                      " cannot be represented by a 16-bit integer, as required by VBA.">>)]
    ELSE IF isinstance(value, "float") THEN [type |-> "Double", raised |-> NoError]
    ELSE IF isinstance(value, "str") THEN [type |-> "String", raised |-> NoError]
    ELSE [type |-> "", raised |-> ValueError(
            <<"Type of the value parameter: ", value.kind,
              ", is not supported for VBA type conversion.">>)]

\* the type add_parameter infers, or the exception it raises instead
infer_type(value) ==
    IF isinstance(value, "bool") THEN [type |-> "Boolean", raised |-> NoError]
    ELSE IF isinstance(value, "float") THEN [type |-> "Double", raised |-> NoError]
    ELSE IF isinstance(value, "int") THEN
        IF fits_vba_integer(value.v)
            THEN [type |-> "Integer", raised |-> NoError]
            ELSE [type |-> "", raised |-> ValueError(
                    <<"Size of value: ", ToString(value.v),
                      " cannot be represented by a 16-bit integer, as required by VBA.">>)]
    ELSE IF isinstance(value, "str") THEN [type |-> "String", raised |-> NoError]
    ELSE [type |-> "", raised |-> ValueError(
            <<"Type of the value parameter: ", value.kind,
              ", is not supported for VBA type conversion.">>)]

\* add_parameter that writes the assignment before the declaration
add_parameter_assign_first(self, name, value, declare_type) ==
    LET inferred == IF declare_type.kind = "NoneType"
                        THEN infer_type(value)
                        ELSE [type |-> declare_type.name, raised |-> NoError]
        val_type == inferred.type
        s1 == [self EXCEPT !.parameters =
                setitem(@, <<name, self.current_scope>>,
                        [value |-> value, type |-> val_type])]
        s2 == write(s1, <<name, " = ">> \o val_vba_content(value) \o <<"\n">>)
    IN  IF inferred.raised # NoError
            THEN [self EXCEPT !.raised = inferred.raised]
        ELSE IF ~Ok(s2) THEN s2
        ELSE write(s2, <<"Dim ", name, " As ", val_type, "\n">>)

\* declare_type is [kind |-> "NoneType"] when the caller gives none
add_parameter(self, name, value, declare_type) ==
    LET inferred == IF declare_type.kind = "NoneType"
                        THEN infer_type(value)
                        ELSE [type |-> declare_type.name, raised |-> NoError]
        val_type == inferred.type
        s1 == [self EXCEPT !.parameters =
                setitem(@, <<name, self.current_scope>>,
                        [value |-> value, type |-> val_type])]
        s2 == write(s1, <<"Dim ", name, " As ", val_type, "\n">>)
    IN  IF inferred.raised # NoError
            THEN [self EXCEPT !.raised = inferred.raised]
        ELSE IF ~Ok(s2) THEN s2
        ELSE write(s2, <<name, " = ">> \o val_vba_content(value) \o <<"\n">>)

-----------------------------------------------------------------------------
(* The emitters: functions that validate their options and then drive the
   writer. *)

\* a str without quote or backslash characters, as a text
Str(s) == <<s>>

\* an f-string line: the fragments joined, with the line feed
Line(fragments) == fragments \o <<"\n">>

\* consecutive writer.write statements: the first that raises ends them
RECURSIVE write_each(_, _)
write_each(self, texts) ==
    IF texts = <<>> \/ ~Ok(self) THEN self
    ELSE write_each(write(self, Head(texts)), Tail(texts))

\* a block that is not closed: no writer.end_with() after the write
\* statements
with_block_left_open(self, structure, texts) ==
    LET s1 == start_with(self, structure)
    IN  IF ~Ok(s1) THEN s1 ELSE write_each(s1, texts)

\* writer.start_with(structure), the write statements, writer.end_with()
with_block(self, structure, texts) ==
    LET s1 == start_with(self, structure)
        s2 == write_each(s1, texts)
    IN  IF ~Ok(s1) THEN s1
        ELSE IF ~Ok(s2) THEN s2
        ELSE end_with(s2)

\* the value after a comma of an argument list
Arg(value) == <<", ">> \o wrap_nonstr_in_double_quotes(value)

\* value is not None
Given(value) == value.kind # "NoneType"

\* the lines of an if statement's body
When(cond, texts) == IF cond THEN texts ELSE <<>>

\* value in [options]: a str equal to one of them
OneOf(value, options) ==
    value.kind = "str" /\ value.v \in {Str(o) : o \in options}

\* an assert statement that fails after the block has been opened
Fails_in_block(self, message) ==
    [start_with(self, "Block") EXCEPT !.raised = AssertionError(<<message>>)]

\* a failed assert statement: nothing after it is executed
Fails(self, message) == [self EXCEPT !.raised = AssertionError(<<message>>)]

LengthUnits == {"m", "cm", "mm", "um", "nm", "ft", "in", "mil"}
TimeUnits == {"fs", "ps", "ns", "us", "ms", "s"}
FrequencyUnits == {"Hz", "kHz", "MHz", "GHz", "THz", "PHz"}
TemperatureUnits == {"celsius", "kelvin", "fahrenheit"}

\* globals.units.Units
Units(self, length, time, frequency, temperature) ==
    IF ~OneOf(length, LengthUnits)
        THEN Fails(self, "Provided unit of length is not supported.")
    ELSE IF ~OneOf(time, TimeUnits)
        THEN Fails(self, "Provided unit of time is not supported.")
    ELSE IF ~OneOf(frequency, FrequencyUnits)
        THEN Fails(self, "Provided unit of frequency is not supported.")
    ELSE IF ~OneOf(temperature, TemperatureUnits)
        THEN Fails(self, "Provided unit of temperature is not supported.")
    ELSE with_block(self, "Units", <<
            Line(<<".Geometry ">> \o string_repr(length.v)),
            Line(<<".Time ">> \o string_repr(time.v)),
            Line(<<".Frequency ">> \o string_repr(frequency.v)),
            Line(<<".TemperatureUnit ">> \o string_repr(temperature.v)) >>)

\* FrequencyRange that writes the maximum first
FrequencyRange_max_first(self, frequency_range) ==
    write(self, Line(<<"Solver.FrequencyRange ">>
        \o wrap_nonstr_in_double_quotes(frequency_range.v[2])
        \o Arg(frequency_range.v[1])))

\* solver.general.SolverSettings.FrequencyRange
FrequencyRange(self, frequency_range) ==
    write(self, Line(<<"Solver.FrequencyRange ">>
        \o wrap_nonstr_in_double_quotes(frequency_range.v[1])
        \o Arg(frequency_range.v[2])))

\* modeling.picks.Pick.PickEdgeFromId
PickEdgeFromId(self, name, edge_id, vertex_id) ==
    write(self, Line(<<"Pick.PickEdgeFromId ">> \o string_repr(name.v)
        \o Arg(edge_id) \o Arg(vertex_id)))

\* the three components of a tuple, in order
Components(t) ==
    wrap_nonstr_in_double_quotes(t.v[1]) \o Arg(t.v[2]) \o Arg(t.v[3])

ObjectOptions == {"Shape"}
MethodOptions == {"Mirror", "Translate"}

\* modeling.tools.Transform.Transform; a holds the keyword arguments
Transform(self, a) ==
    IF ~OneOf(a.transform_object_type, ObjectOptions)
        THEN Fails(self, "Object type for the transformation is not of the supported options.")
    ELSE IF ~OneOf(a.transform_method, MethodOptions)
        THEN Fails(self, "Transformation method is not of the supported options")
    ELSE with_block(self, "Transform",
            << Line(<<".Reset">>),
               Line(<<".Name ">> \o string_repr(a.name.v)),
               Line(<<".Origin ">> \o string_repr(a.origin.v)) >>
            \o When(Given(a.center),
                    << Line(<<".Center ">> \o Components(a.center)) >>)
            \o When(Given(a.plane_normal),
                    << Line(<<".PlaneNormal ">>
                            \o Components(a.plane_normal)) >>)
            \o When(Given(a.vector),
                    << Line(<<".Vector ">> \o Components(a.vector)) >>)
            \o When(Given(a.use_picked_points),
                    << Line(<<".UsePickedPoints ">>
                        \o wrap_nonstr_in_double_quotes(
                                a.use_picked_points)) >>)
            \o When(Given(a.invert_picked_points),
                    << Line(<<".InvertPickedPoints ">>
                        \o wrap_nonstr_in_double_quotes(
                                a.invert_picked_points)) >>)
            \o << Line(<<".MultipleObjects ">>
                        \o wrap_nonstr_in_double_quotes(a.copy)),
                  Line(<<".GroupObjects ">>
                        \o wrap_nonstr_in_double_quotes(a.unite)),
                  Line(<<".Transform ">>
                        \o string_repr(a.transform_object_type.v)
                        \o <<", ">> \o string_repr(a.transform_method.v)),
                  Line(<<".Repetitions ">>
                        \o wrap_nonstr_in_double_quotes(a.repetitions)) >>)

DataModes == {"FixedNumber", "FixedWidth"}
FileTypes == {"ascii", "csv", "hdf5"}

\* export.ascii.ASCIIExport; a holds the keyword arguments
ASCIIExport(self, a) ==
    IF Given(a.data_mode) /\ ~OneOf(a.data_mode, DataModes)
        THEN Fails(self, "Provided data mode is not of the supported options.")
    ELSE IF ~OneOf(a.file_type, FileTypes)
        THEN Fails(self, "Provided file type is not of the supported options.")
    ELSE with_block(self, "ASCIIExport",
            << Line(<<".Reset">>),
               Line(<<".FileName ">> \o string_repr(a.export_path.v)),
               Line(<<".SetfileType ">> \o string_repr(a.file_type.v)) >>
            \o When(Given(a.data_mode),
                    << Line(<<".Mode ">> \o string_repr(a.data_mode.v)) >>)
            \o When(Given(a.step),
                    << Line(<<".Step ">>
                        \o wrap_nonstr_in_double_quotes(a.step)) >>)
            \o When(Given(a.step_directional),
                    << Line(<<".StepX ">> \o wrap_nonstr_in_double_quotes(
                                a.step_directional.v[1])),
                       Line(<<".StepY ">> \o wrap_nonstr_in_double_quotes(
                                a.step_directional.v[2])),
                       Line(<<".StepZ ">> \o wrap_nonstr_in_double_quotes(
                                a.step_directional.v[3])) >>)
            \o When(Given(a.subvolume),
                    << Line(<<".SetSubvolume ">>
                        \o wrap_nonstr_in_double_quotes(a.subvolume.v[1].v[1])
                        \o Arg(a.subvolume.v[1].v[2])
                        \o Arg(a.subvolume.v[2].v[1])
                        \o Arg(a.subvolume.v[2].v[2])
                        \o Arg(a.subvolume.v[3].v[1])
                        \o Arg(a.subvolume.v[3].v[2])) >>)
            \o << Line(<<".UseSubvolume ">>
                        \o wrap_nonstr_in_double_quotes(a.use_subvolume)),
                  Line(<<".ExportCoordinatesInMeter ">>
                        \o wrap_nonstr_in_double_quotes(a.use_meter)) >>
            \o When(Given(a.csv_separator),
                    << Line(<<".SetCsvSeparator ">>
                        \o string_repr(a.csv_separator.v)) >>)
            \o << Line(<<".Execute">>) >>)

MeshTypes == {"Hexahedral Mesh", "Tetrahedral Mesh"}

\* solver.eigenmode.EigenmodeSolver
EigenmodeSolver(self, number_of_modes, mesh_type, auto_hex_mesh, auto_tetra_mesh) ==
    IF ~OneOf(mesh_type, MeshTypes)
        THEN Fails(self, "Provided mesh type is not supported.")
    ELSE with_block(self, "EigenmodeSolver",
            << Line(<<".Reset">>),
               Line(<<".SetMeshType ">> \o string_repr(mesh_type.v)),
               IF mesh_type.v = Str("Hexahedral Mesh")
                   THEN Line(<<".SetMeshAdaptationHex ">>
                            \o wrap_nonstr_in_double_quotes(auto_hex_mesh))
                   ELSE Line(<<".SetMeshAdaptationTet ">>
                            \o wrap_nonstr_in_double_quotes(auto_tetra_mesh)),
               Line(<<".SetNumberOfModes ">>
                    \o wrap_nonstr_in_double_quotes(number_of_modes)),
               Line(<<".Start">>) >>)

MaterialTypes == {"normal", "pec"}
ThermalTypes == {"normal", "type"}

\* the two lines of a pair of bounds
Space(axis, bounds) ==
    When(Given(bounds),
         << Line(<<"." \o axis \o "minSpace ">>
                    \o wrap_nonstr_in_double_quotes(bounds.v[1])),
            Line(<<"." \o axis \o "maxSpace ">>
                    \o wrap_nonstr_in_double_quotes(bounds.v[2])) >>)

\* solver.settings.Settings.Background; a holds the keyword arguments
Background(self, a) ==
    IF ~OneOf(a.material_type, MaterialTypes)
        THEN Fails(self, "Material type is not of the valid options: 'normal' or 'pec'.")
    ELSE IF Given(a.thermal_type) /\ ~OneOf(a.thermal_type, ThermalTypes)
        THEN Fails(self, "Thermal type is not of the valid options: 'normal' or 'ptc'")
    ELSE with_block(self, "Background",
            << Line(<<".Reset">>),
               Line(<<".Type ">> \o string_repr(a.material_type.v)) >>
            \o When(Given(a.epsilon),
                    << Line(<<".Epsilon ">>
                        \o wrap_nonstr_in_double_quotes(a.epsilon)) >>)
            \o When(Given(a.mu),
                    << Line(<<".Mu ">>
                        \o wrap_nonstr_in_double_quotes(a.mu)) >>)
            \o When(Given(a.electric_conductivity),
                    << Line(<<".ElConductivity ">>
                        \o wrap_nonstr_in_double_quotes(
                                a.electric_conductivity)) >>)
            \o Space("X", a.x_bounds)
            \o Space("Y", a.y_bounds)
            \o Space("Z", a.z_bounds)
            \o When(Given(a.thermal_type),
                    << Line(<<".ThermalType ">>
                        \o string_repr(a.thermal_type.v)) >>)
            \o When(Given(a.thermal_conductivity),
                    << Line(<<".ThermalConductivity ">>
                        \o wrap_nonstr_in_double_quotes(
                                a.thermal_conductivity)) >>)
            \o << Line(<<".ApplyInAllDirections ">>
                        \o wrap_nonstr_in_double_quotes(
                                a.apply_in_all_directions)) >>)

\* value == "text"
Is(value, text) == value.kind = "str" /\ value.v = Str(text)

\* modeling.shapes.Faces.Face; a holds the keyword arguments
Face(self, a) ==
    IF ~(Is(a.mode, "PickFace") \/ Is(a.mode, "ExtrudeCurve")
            \/ Is(a.mode, "CoverCurve"))
        THEN Fails(self, "The provided mode for Face selection is not a valid mode.")
    ELSE IF ~(\/ Is(a.mode, "ExtrudeCurve") /\ Given(a.curve)
              \/ Is(a.mode, "CoverCurve") /\ Given(a.curve))
        THEN Fails(self, "Mode for face creation is a curved based mode, but no curve was provided.")
    ELSE with_block(self, "Face",
            << Line(<<".Reset">>),
               Line(<<".Name ">> \o string_repr(a.name.v)),
               Line(<<".Type ">> \o string_repr(a.mode.v)) >>
            \o When(Given(a.curve),
                    << Line(<<".Curve ">> \o string_repr(a.curve.v)) >>)
            \o When(Given(a.offset) /\ Is(a.mode, "PickFace"),
                    << Line(<<".Offset ">>
                        \o wrap_nonstr_in_double_quotes(a.offset)) >>)
            \o When(Given(a.taperangle) /\ Is(a.mode, "ExtrudeCurve"),
                    << Line(<<".Taperangle ">>
                        \o wrap_nonstr_in_double_quotes(a.taperangle)) >>)
            \o When(Given(a.thickness),
                    << Line(<<".Thickness ">>
                        \o wrap_nonstr_in_double_quotes(a.thickness)) >>)
            \o When(Given(a.twistangle) /\ Is(a.mode, "ExtrudeCurve"),
                    << Line(<<".Twistangle ">>
                        \o wrap_nonstr_in_double_quotes(a.twistangle)) >>)
            \o << Line(<<".Create">>) >>)

\* modeling.shapes.FromProfile2D.Rotate; a holds the keyword arguments
Rotate(self, a) ==
    IF ~(Is(a.mode, "Pointlist") \/ Is(a.mode, "Picks"))
        THEN Fails(self, "Provided mode is not supported, must be Pointlist or Picks.")
    ELSE with_block(self, "Rotate",
            << Line(<<".Name ">> \o string_repr(a.name.v)),
               Line(<<".Component ">> \o string_repr(a.component.v)),
               Line(<<".NumberOfPickedFaces ">>
                    \o wrap_nonstr_in_double_quotes(a.number_of_picked_faces)),
               Line(<<".Material ">> \o string_repr(a.material.v)),
               Line(<<".Mode ">> \o string_repr(a.mode.v)) >>
            \o When(Given(a.start_angle) /\ Is(a.mode, "Pointlist"),
                    << Line(<<".StartAngle ">>
                        \o wrap_nonstr_in_double_quotes(a.start_angle)) >>)
            \o << Line(<<".Angle ">> \o wrap_nonstr_in_double_quotes(a.angle)),
                  Line(<<".Height ">>
                    \o wrap_nonstr_in_double_quotes(a.height)),
                  Line(<<".RadiusRatio ">>
                    \o wrap_nonstr_in_double_quotes(a.radius_ratio)),
                  Line(<<".NSteps ">>
                    \o wrap_nonstr_in_double_quotes(a.Nsteps)),
                  Line(<<".SplitClosedEdges ">>
                    \o wrap_nonstr_in_double_quotes(a.split_closed_edges)),
                  Line(<<".SegmentedProfile ">>
                    \o wrap_nonstr_in_double_quotes(a.segmented_profile)),
                  Line(<<".DeleteBaseFaceSolid ">>
                    \o wrap_nonstr_in_double_quotes(
                            a.delete_base_face_solid)),
                  Line(<<".ClearPickedFace ">>
                    \o wrap_nonstr_in_double_quotes(a.clear_picked_face)),
                  Line(<<".SimplifySolid ">>
                    \o wrap_nonstr_in_double_quotes(a.simplify_solid)),
                  Line(<<".UseAdvancedSegmentedRotation ">>
                    \o wrap_nonstr_in_double_quotes(
                            a.use_advanced_segmented_rotation)),
                  Line(<<".CutEndOff ">>
                    \o wrap_nonstr_in_double_quotes(a.cut_end_off)),
                  Line(<<".Create">>) >>)

\* solver.settings.Settings.Boundaries; a holds the keyword arguments.
\* "is False" holds of the bool False alone
Boundaries(self, a) ==
    with_block(self, "Boundary",
        << Line(<<".ApplyInAllDirections ">>
                \o wrap_nonstr_in_double_quotes(a.apply_in_all_directions)) >>
        \o (IF a.apply_in_all_directions = PyBool(FALSE)
            THEN When(Given(a.x_boundaries),
                    << Line(<<".Xmin ">>
                            \o string_repr(a.x_boundaries.v[1].v)),
                       Line(<<".Xmax ">>
                            \o string_repr(a.x_boundaries.v[2].v)) >>)
                \o When(Given(a.y_boundaries),
                    << Line(<<".Ymin ">>
                            \o string_repr(a.y_boundaries.v[1].v)),
                       Line(<<".Ymax ">>
                            \o string_repr(a.y_boundaries.v[2].v)) >>)
                \o When(Given(a.z_boundaries),
                    << Line(<<".Zmin ">>
                            \o string_repr(a.z_boundaries.v[1].v)),
                       Line(<<".Zmin ">>
                            \o string_repr(a.z_boundaries.v[2].v)) >>)
            ELSE When(Given(a.boundary_type),
                    << Line(<<".Xmin ">>
                            \o string_repr(a.boundary_type.v)) >>)))

\* modeling.curves.Curves.Ellipse; a holds the keyword arguments
Ellipse(self, a) ==
    with_block(self, "Ellipse",
        << Line(<<".Reset">>),
           Line(<<".Name ">> \o string_repr(a.name.v)),
           Line(<<".Curve ">> \o string_repr(a.curve.v)),
           Line(<<".XRadius ">> \o wrap_nonstr_in_double_quotes(a.x_radius)),
           Line(<<".YRadius ">> \o wrap_nonstr_in_double_quotes(a.y_radius)),
           Line(<<".Xcenter ">>
                \o wrap_nonstr_in_double_quotes(a.center.v[1])),
           Line(<<".Ycenter ">>
                \o wrap_nonstr_in_double_quotes(a.center.v[2])),
           Line(<<".Segments ">>
                \o wrap_nonstr_in_double_quotes(a.segments)),
           Line(<<".Create">>) >>)

\* modeling.curves.Curves.Line
Curves_Line(self, name, start_point, end_point, curve) ==
    with_block(self, "Line",
        << Line(<<".Reset">>),
           Line(<<".Name ">> \o string_repr(name.v)),
           Line(<<".Curve ">> \o string_repr(curve.v)),
           Line(<<".X1 ">> \o wrap_nonstr_in_double_quotes(start_point.v[1])),
           Line(<<".Y1 ">> \o wrap_nonstr_in_double_quotes(start_point.v[2])),
           Line(<<".X2 ">> \o wrap_nonstr_in_double_quotes(end_point.v[1])),
           Line(<<".Y2 ">> \o wrap_nonstr_in_double_quotes(end_point.v[2])),
           Line(<<".Create">>) >>)

\* the x and the y of a point, separated by a comma
Coordinates(point) ==
    wrap_nonstr_in_double_quotes(point.v[1]) \o Arg(point.v[2])

\* the truth value of an if condition
Truthy(value) ==
    CASE value.kind = "bool" -> value.v
      [] value.kind = "int" -> value.v # 0
      [] OTHER -> Given(value)

\* Polygon that takes every connecting point as an absolute one
connecting_lines_all_absolute(points, relative) ==
    [i \in 1..Len(points) |-> Line(<<".LineTo ">> \o Coordinates(points[i]))]

\* the loop of Polygon over zip(next_points, which_relative): a line per
\* pair, up to the end of the shorter list
connecting_lines(points, relative) ==
    [i \in 1..(IF Len(points) <= Len(relative) THEN Len(points)
                                              ELSE Len(relative)) |->
        IF Truthy(relative[i])
            THEN Line(<<".RLine ">> \o Coordinates(points[i]))
            ELSE Line(<<".LineTo ">> \o Coordinates(points[i]))]

\* modeling.curves.Curves.Polygon; a holds the keyword arguments
Polygon(self, a) ==
    LET which_relative ==
            IF ~Given(a.which_relative)
                THEN [i \in 1..Len(a.next_points.v) |-> PyBool(FALSE)]
                ELSE a.which_relative.v
    IN  IF ~(Len(a.next_points.v) >= 1)
            THEN Fails(self, "At least one connecting point is needed to define a Polygon Curve.")
        ELSE IF Given(a.which_relative)
                /\ Len(a.next_points.v) # Len(a.which_relative.v)
            THEN Fails(self, "Length of next_points array is not equal to the length of which_relative array.")
        ELSE with_block(self, "Polygon",
                << Line(<<".Reset">>),
                   Line(<<".Name ">> \o string_repr(a.name.v)),
                   Line(<<".Curve ">> \o string_repr(a.curve.v)),
                   Line(<<".Point ">> \o Coordinates(a.start_point)) >>
                \o connecting_lines(a.next_points.v, which_relative)
                \o << Line(<<".Create">>) >>)

\* modeling.curves.Curves.TrimCurves; a holds the keyword arguments
TrimCurves(self, a) ==
    with_block(self, "TrimCurves",
        << Line(<<".Reset">>),
           Line(<<".Curve ">> \o string_repr(a.curve.v)),
           Line(<<".CurveItem1 ">> \o string_repr(a.curve_item_1.v)),
           Line(<<".CurveItem2 ">> \o string_repr(a.curve_item_2.v)),
           Line(<<".DeleteEdges1 ">>
                \o num_or_list_of_nums_to_str(a.delete_edges_1)),
           Line(<<".DeleteEdges2 ">>
                \o num_or_list_of_nums_to_str(a.delete_edges_2)),
           Line(<<".Trim">>) >>)

\* project.file.FileHandling.FileNew
FileNew(self) == write(self, Line(<<"FileNew">>))

\* project.file.FileHandling.Save
Save(self) == write(self, Line(<<"Save">>))

\* project.general.General.DisableInteraction: the SetLock line
DisableInteraction(self, disable) ==
    write(self, Line(<<"SetLock ">> \o wrap_nonstr_in_double_quotes(disable)))

\* modeling.solids.Solids.Add
Add(self, solid_1, solid_2) ==
    write(self, Line(<<"Solid.Add ">> \o string_repr(solid_1.v)
        \o <<", ">> \o string_repr(solid_2.v)))

\* tree.selection.SelectTreeItem
SelectTreeItem(self, tree_path) ==
    write(self, Line(<<"SelectTreeItem ">> \o string_repr(tree_path.v)))

\* modeling.picks.Picks.PickFaceFromId
PickFaceFromId(self, name, id) ==
    write(self, Line(<<"Pick.PickFaceFromId ">> \o string_repr(name.v)
        \o Arg(id)))

-----------------------------------------------------------------------------
(* The state after VbaWriter(filehandle), and one action per method. *)

NoCall == [fn |-> "none", arg |-> <<>>]

\* __init__ on an open, empty file
Constructed ==
    write_essentials(
        [filehandle |-> <<>>, closed |-> FALSE, indent_depth |-> 0,
         parameters |-> <<>>, current_scope |-> None, raised |-> NoError,
         accepts |-> Unlimited])

InitWriter ==
    /\ filehandle = Constructed.filehandle
    /\ closed = Constructed.closed
    /\ indent_depth = Constructed.indent_depth
    /\ parameters = Constructed.parameters
    /\ current_scope = Constructed.current_scope
    /\ raised = Constructed.raised

Init ==
    /\ InitWriter
    /\ call = NoCall
    /\ ret = <<>>

\* the object's fields after a call returned or raised
Fields(self) ==
    /\ filehandle' = self.filehandle
    /\ closed' = self.closed
    /\ indent_depth' = self.indent_depth
    /\ parameters' = self.parameters
    /\ current_scope' = self.current_scope
    /\ raised' = self.raised

\* a call of a method of the writer
Becomes(self) ==
    /\ Fields(self)
    /\ call' = NoCall
    /\ ret' = <<>>

\* a call of the emitter fn with the arguments arg
EmitsOf(fn, arg, self) ==
    /\ Fields(self)
    /\ call' = [fn |-> fn, arg |-> arg]
    /\ ret' = <<>>

\* a call of the emitter fn
Emits(fn, self) == EmitsOf(fn, <<>>, self)

Write(text) == Becomes(write(Self, text))
StartMain == Becomes(start_main(Self))
EndMain == Becomes(end_main(Self))
StartWith(structure) == Becomes(start_with(Self, structure))
EndWith == Becomes(end_with(Self))
InitialiseParameter(name, declare_type) ==
    Becomes(initialise_parameter(Self, name, declare_type))
AssignParameter(name, value) == Becomes(assign_parameter(Self, name, value))
AddParameter(name, value, declare_type) ==
    Becomes(add_parameter(Self, name, value, declare_type))

\* the lines written after the header
Lines == Len(filehandle) - 1

\* the bound of a specification: a further call is made while the script
\* holds fewer than max lines
Short(max) == Lines < max

-----------------------------------------------------------------------------
(* The calls a client may make: the arguments are drawn from small sets.   *)

Names == {"n", "x"}
Scopes == {None, "Main"}
Structures == {"Box"}
Texts == {<<".Name \"myBox\"\n">>}

IntValues == {PyInt(i) : i \in {-32769, -32768, 100, 32767, 32768, 40000}}
Values ==
    IntValues \cup {PyBool(TRUE), PyFloat(35), PyStr(<<"a">>), NoneValue, PyList}

StrType(t) == [kind |-> "str", name |-> t]
PyType(t) == [kind |-> "type", name |-> t]
NoDeclareType == [kind |-> "NoneType", name |-> None]

\* the values a client assigns to a declared parameter
AssignValues == {PyInt(100), PyInt(40000), PyStr(<<"a">>)}
\* the values it declares with an explicit type
ExplicitValues == {PyInt(100), PyInt(40000)}

\* what a client passes as declare_type to initialise_parameter
InitialiseTypes == {StrType("Integer"), PyType("float"), PyType("list")}

\* every method of the writer, while the script is short
Next ==
    \/ Short(MaxLines) /\ \E text \in Texts : Write(text)
    \/ Short(MaxLines) /\ StartMain
    \/ Short(MaxLines) /\ EndMain
    \/ Short(MaxLines) /\ \E structure \in Structures : StartWith(structure)
    \/ Short(MaxLines) /\ EndWith
    \/ Short(MaxLines) /\ \E name \in Names, t \in InitialiseTypes :
         InitialiseParameter(name, t)
    \/ Short(MaxLines) /\ \E name \in Names, value \in AssignValues :
         AssignParameter(name, value)
    \/ Short(MaxLines) /\ \E name \in Names, value \in Values :
         AddParameter(name, value, NoDeclareType)
    \/ Short(MaxLines) /\ \E name \in Names, value \in ExplicitValues :
         AddParameter(name, value, StrType("Integer"))

Spec == Init /\ [][Next]_vars

\* the block structure alone: With blocks, the entry point, and texts
\* written with and without the line feed that write does not add
BlockTexts == Texts \cup {<<".Name \"myBox\"">>}

NextBlocks ==
    \/ Short(MaxBlockLines) /\ \E text \in BlockTexts : Write(text)
    \/ Short(MaxBlockLines) /\ StartMain
    \/ Short(MaxBlockLines) /\ EndMain
    \/ Short(MaxBlockLines) /\ \E structure \in Structures :
         StartWith(structure)
    \/ Short(MaxBlockLines) /\ EndWith

SpecBlocks == Init /\ [][NextBlocks]_vars

\* one variable name declared and assigned in and out of the entry point
ScopeValues == {PyInt(1), PyInt(2)}
ScopeTypes == {StrType("Integer"), StrType("Double")}

NextScope ==
    \/ Short(MaxScopeLines) /\ StartMain
    \/ Short(MaxScopeLines) /\ EndMain
    \/ Short(MaxScopeLines) /\ \E t \in ScopeTypes :
         InitialiseParameter("x", t)
    \/ Short(MaxScopeLines) /\ \E value \in ScopeValues :
         AssignParameter("x", value)

SpecScope == Init /\ [][NextScope]_vars

\* the pure formatting functions, applied to every short text
Chars == {"a", Quote, DQuote, Backslash}
TextsUpTo(n) == UNION {[1..k -> Chars] : k \in 0..n}

InitRepr ==
    /\ InitWriter
    /\ ret = <<>>
    /\ call \in {[fn |-> "pending", arg |-> t] : t \in TextsUpTo(MaxTextLen)}

StringRepr ==
    /\ call.fn = "pending"
    /\ call' = [fn |-> "string_repr", arg |-> call.arg]
    /\ ret' = string_repr(call.arg)
    /\ UNCHANGED <<filehandle, closed, indent_depth, parameters,
                   current_scope, raised>>

NextRepr == StringRepr

SpecRepr == InitRepr /\ [][NextRepr]_vars

\* one action per emitter
EmitUnits(length, time, frequency, temperature) ==
    Emits("Units", Units(Self, length, time, frequency, temperature))
EmitFrequencyRange(frequency_range) ==
    Emits("FrequencyRange", FrequencyRange(Self, frequency_range))
EmitPickEdgeFromId(name, edge_id, vertex_id) ==
    Emits("PickEdgeFromId", PickEdgeFromId(Self, name, edge_id, vertex_id))
EmitTransform(a) == Emits("Transform", Transform(Self, a))
EmitASCIIExport(a) == Emits("ASCIIExport", ASCIIExport(Self, a))
EmitEigenmodeSolver(number_of_modes, mesh_type, auto_hex_mesh, auto_tetra_mesh) ==
    Emits("EigenmodeSolver",
          EigenmodeSolver(Self, number_of_modes, mesh_type, auto_hex_mesh,
                          auto_tetra_mesh))
EmitBackground(a) == Emits("Background", Background(Self, a))
EmitFace(a) == Emits("Face", Face(Self, a))
EmitRotate(a) == Emits("Rotate", Rotate(Self, a))
EmitBoundaries(a) == Emits("Boundaries", Boundaries(Self, a))

\* the arguments given to the emitters: listed options and others, numbers
\* that differ from each other, and names of script parameters
S(text) == PyStr(Str(text))
Strs(texts) == {S(t) : t \in texts}

\* Units(writer, length, time, frequency, temperature): the defaults, and
\* one unit after the other replaced by one that is not listed
UnitsArgs ==
    {<<S("mm"), S("ns"), S("GHz"), S("celsius")>>,
     <<S("um"), S("ps"), S("THz"), S("kelvin")>>,
     <<S("inch"), S("ns"), S("GHz"), S("celsius")>>,
     <<S("mm"), S("min"), S("GHz"), S("celsius")>>,
     <<S("mm"), S("ns"), S("rpm"), S("celsius")>>,
     <<S("mm"), S("ns"), S("GHz"), S("rankine")>>}

FrequencyRanges ==
    {PyTuple(<<PyFloat(10), PyFloat(25)>>),
     PyTuple(<<S("fmin"), S("fmax")>>)}

EdgeIds == {PyInt(1), PyInt(2)}
VertexIds == {PyInt(3)}

\* center, plane_normal and vector of Transform
Geometries ==
    {<<NoneValue, NoneValue, NoneValue>>,
     <<PyTuple(<<PyFloat(10), PyFloat(20), PyFloat(30)>>),
       PyTuple(<<PyInt(1), PyInt(0), PyInt(2)>>), NoneValue>>,
     <<PyTuple(<<S("cx"), PyInt(0), PyFloat(5)>>), NoneValue,
       PyTuple(<<PyInt(7), PyInt(8), PyInt(9)>>)>>}

\* Transform(writer, "solid1", type, method, ...) with the defaults of the
\* parameters that are not varied
TransformArgs ==
    {[name |-> S("solid1"), transform_object_type |-> t,
      transform_method |-> m, plane_normal |-> g[2], vector |-> g[3],
      origin |-> S("ShapeCenter"), center |-> g[1], copy |-> PyBool(FALSE),
      unite |-> PyBool(FALSE), repetitions |-> PyInt(1),
      use_picked_points |-> NoneValue,
      invert_picked_points |-> PyBool(TRUE)] :
        t \in Strs({"Shape", "Curve"}),
        m \in Strs({"Mirror", "Rotate"}),
        g \in Geometries}

Subvolumes ==
    {NoneValue,
     PyTuple(<<PyTuple(<<PyInt(1), PyInt(2)>>),
               PyTuple(<<PyInt(3), PyInt(4)>>),
               PyTuple(<<PyInt(5), PyInt(6)>>)>>)}

ASCIIExportArgs ==
    {[export_path |-> S("out.txt"), data_mode |-> d, file_type |-> f,
      step |-> PyInt(4), step_directional |-> NoneValue, subvolume |-> sv,
      use_subvolume |-> PyBool(Given(sv)), use_meter |-> PyBool(FALSE),
      csv_separator |-> NoneValue] :
        d \in {NoneValue} \cup Strs({"FixedNumber", "Free"}),
        f \in Strs({"ascii", "txt"}),
        sv \in Subvolumes}

EigenmodeMeshTypes ==
    Strs({"Hexahedral Mesh", "Tetrahedral Mesh", "Surface Mesh"})

BackgroundArgs ==
    {[material_type |-> m, apply_in_all_directions |-> PyBool(FALSE),
      epsilon |-> PyFloat(10), mu |-> NoneValue,
      electric_conductivity |-> NoneValue, x_bounds |-> x,
      y_bounds |-> NoneValue, z_bounds |-> NoneValue, thermal_type |-> t,
      thermal_conductivity |-> NoneValue] :
        m \in Strs({"normal", "vacuum"}),
        x \in {NoneValue, PyTuple(<<PyInt(1), PyInt(2)>>)},
        t \in {NoneValue} \cup Strs({"type", "ptc"})}

FaceArgs ==
    {[name |-> S("face1"), mode |-> m, curve |-> c, twistangle |-> NoneValue,
      thickness |-> NoneValue, taperangle |-> NoneValue,
      offset |-> PyFloat(5)] :
        m \in Strs({"PickFace", "ExtrudeCurve", "CoverCurve", "Sweep"}),
        c \in {NoneValue, S("curve1")}}

RotateArgs ==
    {[name |-> S("cell"), component |-> S("component1"),
      material |-> S("PEC"), mode |-> m, angle |-> PyFloat(3600),
      height |-> PyFloat(0), radius_ratio |-> PyFloat(10),
      Nsteps |-> PyInt(0), number_of_picked_faces |-> PyInt(1),
      start_angle |-> sa, split_closed_edges |-> PyBool(TRUE),
      segmented_profile |-> PyBool(FALSE),
      delete_base_face_solid |-> PyBool(FALSE),
      clear_picked_face |-> PyBool(TRUE), simplify_solid |-> PyBool(TRUE),
      use_advanced_segmented_rotation |-> PyBool(TRUE),
      cut_end_off |-> PyBool(FALSE)] :
        m \in Strs({"Pointlist", "Picks", "Sweep"}),
        sa \in {NoneValue, PyFloat(0)}}

\* Boundaries(writer, apply_in_all_directions, ...): a pair of boundary
\* types per direction, or one type for all
BoundaryPairs(lo, hi) == {NoneValue, PyTuple(<<S(lo), S(hi)>>)}

BoundariesArgs ==
    {[apply_in_all_directions |-> PyBool(FALSE), x_boundaries |-> x,
      y_boundaries |-> y, z_boundaries |-> z, boundary_type |-> NoneValue] :
        x \in BoundaryPairs("electric", "magnetic"),
        y \in BoundaryPairs("open", "expanded open"),
        z \in BoundaryPairs("normal", "periodic")}
    \cup
    {[apply_in_all_directions |-> PyBool(TRUE), x_boundaries |-> NoneValue,
      y_boundaries |-> NoneValue, z_boundaries |-> NoneValue,
      boundary_type |-> t] : t \in {NoneValue, S("electric")}}

\* the emitters, called on a new writer or inside a block or entry point
NextEmit ==
    \/ Short(MaxEmitLines) /\ StartMain
    \/ Short(MaxEmitLines) /\ \E structure \in Structures :
         StartWith(structure)
    \/ Short(MaxEmitLines) /\
         \E u \in UnitsArgs : EmitUnits(u[1], u[2], u[3], u[4])
    \/ Short(MaxEmitLines) /\ \E frequency_range \in FrequencyRanges :
         EmitFrequencyRange(frequency_range)
    \/ Short(MaxEmitLines) /\
         \E edge_id \in EdgeIds, vertex_id \in VertexIds :
            EmitPickEdgeFromId(S("solid1"), edge_id, vertex_id)
    \/ Short(MaxEmitLines) /\ \E a \in TransformArgs : EmitTransform(a)
    \/ Short(MaxEmitLines) /\ \E a \in ASCIIExportArgs : EmitASCIIExport(a)
    \/ Short(MaxEmitLines) /\ \E mesh_type \in EigenmodeMeshTypes :
         EmitEigenmodeSolver(PyInt(2), mesh_type, PyBool(FALSE),
                             PyBool(TRUE))
    \/ Short(MaxEmitLines) /\ \E a \in BackgroundArgs : EmitBackground(a)
    \/ Short(MaxEmitLines) /\ \E a \in FaceArgs : EmitFace(a)
    \/ Short(MaxEmitLines) /\ \E a \in RotateArgs : EmitRotate(a)
    \/ Short(MaxEmitLines) /\ \E a \in BoundariesArgs : EmitBoundaries(a)

SpecEmit == Init /\ [][NextEmit]_vars

-----------------------------------------------------------------------------
(* The layout specification: every emitter, on a writer at any depth. *)

EmitEllipse(a) == Emits("Ellipse", Ellipse(Self, a))
EmitLine(name, start_point, end_point, curve) ==
    Emits("Line", Curves_Line(Self, name, start_point, end_point, curve))
EmitPolygon(a) == EmitsOf("Polygon", a, Polygon(Self, a))
EmitTrimCurves(a) == Emits("TrimCurves", TrimCurves(Self, a))
EmitFileNew == Emits("FileNew", FileNew(Self))
EmitSave == Emits("Save", Save(Self))
EmitDisableInteraction(disable) ==
    Emits("DisableInteraction", DisableInteraction(Self, disable))
EmitAdd(solid_1, solid_2) == Emits("Add", Add(Self, solid_1, solid_2))
EmitSelectTreeItem(tree_path) ==
    Emits("SelectTreeItem", SelectTreeItem(Self, tree_path))
EmitPickFaceFromId(name, id) ==
    Emits("PickFaceFromId", PickFaceFromId(Self, name, id))

\* Ellipse(writer, "ellipse1", center, x_radius, y_radius, segments)
EllipseArgs ==
    {[name |-> S("ellipse1"), center |-> PyTuple(<<PyFloat(0), S("cy")>>),
      x_radius |-> PyFloat(25), y_radius |-> S("ry"), segments |-> n,
      curve |-> S("curve")] : n \in {PyInt(0), PyInt(3)}}

\* the end points of Line
EndPoints ==
    {PyTuple(<<PyFloat(10), PyFloat(20)>>), PyTuple(<<S("x2"), PyInt(4)>>)}

\* element i - 1 of next_points
NextPoint(i) == PyTuple(<<PyInt(i), PyFloat(10 * i + 5)>>)

\* a list of up to MaxPoints connecting points that differ from each other
PointLists == {PyListOf([i \in 1..n |-> NextPoint(i)]) : n \in 0..MaxPoints}

\* which_relative: None, or a list of up to MaxPoints bools in which True
\* and False alternate
RelativeLists ==
    {NoneValue} \cup
    {PyListOf([i \in 1..n |-> PyBool((i % 2 = 1) = first)]) :
        n \in 0..MaxPoints, first \in BOOLEAN}

PolygonArgs ==
    {[name |-> S("polygon1"), start_point |-> PyTuple(<<S("x0"), PyInt(0)>>),
      next_points |-> points, which_relative |-> relative,
      curve |-> S("curve")] :
        points \in PointLists, relative \in RelativeLists}

\* the edges TrimCurves deletes: one edge, or a list of edges
DeleteEdges == {PyInt(1), PyListOf(<<PyInt(2), PyInt(3)>>)}

TrimCurvesArgs ==
    {[curve_item_1 |-> S("line1"), curve_item_2 |-> S("ellipse1"),
      delete_edges_1 |-> e1, delete_edges_2 |-> PyInt(2),
      curve |-> S("curve")] : e1 \in DeleteEdges}

\* the writer's block methods and every emitter
NextLayout ==
    \/ Short(MaxLayoutLines) /\ StartMain
    \/ Short(MaxLayoutLines) /\ \E structure \in Structures :
         StartWith(structure)
    \/ Short(MaxLayoutLines) /\ EndWith
    \/ Short(MaxLayoutLines) /\ \E a \in EllipseArgs : EmitEllipse(a)
    \/ Short(MaxLayoutLines) /\ \E end_point \in EndPoints :
         EmitLine(S("line1"), PyTuple(<<PyInt(0), S("y1")>>), end_point,
                  S("curve"))
    \/ Short(MaxLayoutLines) /\ \E a \in PolygonArgs : EmitPolygon(a)
    \/ Short(MaxLayoutLines) /\ \E a \in TrimCurvesArgs : EmitTrimCurves(a)
    \/ Short(MaxLayoutLines) /\ \E a \in FaceArgs : EmitFace(a)
    \/ Short(MaxLayoutLines) /\ \E a \in RotateArgs : EmitRotate(a)
    \/ Short(MaxLayoutLines) /\ \E a \in TransformArgs : EmitTransform(a)
    \/ Short(MaxLayoutLines) /\
         \E u \in UnitsArgs : EmitUnits(u[1], u[2], u[3], u[4])
    \/ Short(MaxLayoutLines) /\ \E a \in ASCIIExportArgs :
         EmitASCIIExport(a)
    \/ Short(MaxLayoutLines) /\ \E mesh_type \in EigenmodeMeshTypes :
         EmitEigenmodeSolver(PyInt(2), mesh_type, PyBool(FALSE),
                             PyBool(TRUE))
    \/ Short(MaxLayoutLines) /\ \E a \in BackgroundArgs : EmitBackground(a)
    \/ Short(MaxLayoutLines) /\ \E a \in BoundariesArgs : EmitBoundaries(a)
    \/ Short(MaxLayoutLines) /\ EmitFileNew
    \/ Short(MaxLayoutLines) /\ EmitSave
    \/ Short(MaxLayoutLines) /\ \E disable \in BOOLEAN :
         EmitDisableInteraction(PyBool(disable))
    \/ Short(MaxLayoutLines) /\ EmitAdd(S("solid1"), S("solid2"))
    \/ Short(MaxLayoutLines) /\ EmitSelectTreeItem(S("Components"))
    \/ Short(MaxLayoutLines) /\ EmitPickFaceFromId(S("solid1"), PyInt(1))
    \/ Short(MaxLayoutLines) /\
         \E edge_id \in EdgeIds, vertex_id \in VertexIds :
            EmitPickEdgeFromId(S("solid1"), edge_id, vertex_id)
    \/ Short(MaxLayoutLines) /\ \E frequency_range \in FrequencyRanges :
         EmitFrequencyRange(frequency_range)

SpecLayout == Init /\ [][NextLayout]_vars

\* the calls on a sink that takes k more writes
WriteOn(k, text) == Becomes(write(Accepting(k), text))
StartMainOn(k) == Becomes(start_main(Accepting(k)))
EndMainOn(k) == Becomes(end_main(Accepting(k)))
StartWithOn(k, structure) == Becomes(start_with(Accepting(k), structure))
EndWithOn(k) == Becomes(end_with(Accepting(k)))
InitialiseParameterOn(k, name, declare_type) ==
    Becomes(initialise_parameter(Accepting(k), name, declare_type))
AssignParameterOn(k, name, value) ==
    Becomes(assign_parameter(Accepting(k), name, value))
AddParameterOn(k, name, value, declare_type) ==
    Becomes(add_parameter(Accepting(k), name, value, declare_type))
EmitUnitsOn(k, length, time, frequency, temperature) ==
    Becomes(Units(Accepting(k), length, time, frequency, temperature))

Budgets == {Unlimited} \cup 0..MaxAccepts

\* the methods and one emitter on a sink that may reject a write, at once
\* or after some lines of the call; end_with steps back before it writes,
\* so the depth bounds the calls that fail
NextIO ==
    \/ Short(MaxIOLines) /\ \E k \in Budgets, text \in Texts :
         WriteOn(k, text)
    \/ Short(MaxIOLines) /\ \E k \in Budgets : StartMainOn(k)
    \/ Short(MaxIOLines) /\ \E k \in Budgets : EndMainOn(k)
    \/ Short(MaxIOLines) /\ \E k \in Budgets, structure \in Structures :
         StartWithOn(k, structure)
    \/ Short(MaxIOLines) /\ indent_depth >= 0 /\
         \E k \in Budgets : EndWithOn(k)
    \/ Short(MaxIOLines) /\ \E k \in Budgets :
         InitialiseParameterOn(k, "x", StrType("Integer"))
    \/ Short(MaxIOLines) /\ \E k \in Budgets :
         AssignParameterOn(k, "x", PyInt(1))
    \/ Short(MaxIOLines) /\ \E k \in Budgets :
         AddParameterOn(k, "n", PyInt(100), NoDeclareType)
    \/ Short(MaxIOLines) /\ \E k \in Budgets :
         EmitUnitsOn(k, S("mm"), S("ns"), S("GHz"), S("celsius"))

SpecIO == Init /\ [][NextIO]_vars

\* the utilities of utils.py, applied to texts, numbers and booleans
UtilValues ==
    {PyStr(t) : t \in TextsUpTo(MaxTextLen)}
        \cup {PyStr(<<"paramName">>)}
        \cup {PyInt(i) : i \in {-1, 0, 1, 100}}
        \cup {PyBool(TRUE), PyBool(FALSE), PyFloat(35), PyFloat(10)}

\* an integer, or a list of integers
Nums == {PyInt(i) : i \in 1..3}
NumLists == {PyListOf(l) : l \in UNION {[1..k -> Nums] : k \in 0..MaxListLen}}

InitUtils ==
    /\ InitWriter
    /\ ret = <<>>
    /\ call \in {[fn |-> "pending", arg |-> v] :
                    v \in UtilValues \cup Nums \cup NumLists}

WrapNonstrInDoubleQuotes ==
    /\ call.fn = "pending"
    /\ call.arg \in UtilValues
    /\ call' = [fn |-> "wrap_nonstr_in_double_quotes", arg |-> call.arg]
    /\ ret' = wrap_nonstr_in_double_quotes(call.arg)
    /\ UNCHANGED <<filehandle, closed, indent_depth, parameters,
                   current_scope, raised>>

NumOrListOfNumsToStr ==
    /\ call.fn = "pending"
    /\ call.arg \in Nums \cup NumLists
    /\ call' = [fn |-> "num_or_list_of_nums_to_str", arg |-> call.arg]
    /\ ret' = num_or_list_of_nums_to_str(call.arg)
    /\ UNCHANGED <<filehandle, closed, indent_depth, parameters,
                   current_scope, raised>>

NextUtils ==
    \/ WrapNonstrInDoubleQuotes
    \/ NumOrListOfNumsToStr

SpecUtils == InitUtils /\ [][NextUtils]_vars

-----------------------------------------------------------------------------
(* Reading the script back: what the lines of the sink say was called.      *)
(* The texts of Texts are member lines, so a With, End With, Sub Main,      *)
(* End Sub or Dim line is in the sink only because its method wrote it.     *)

\* the tabs a line starts with, and the line without them
RECURSIVE Indent(_)
Indent(line) ==
    IF line # <<>> /\ Head(line) = "\t" THEN 1 + Indent(Tail(line)) ELSE 0

Body(line) == SubSeq(line, Indent(line) + 1, Len(line))

IsWith(line) == Len(Body(line)) = 3 /\ Body(line)[1] = "With "
IsEndWith(line) == Body(line) = <<"End With\n">>
IsSubMain(line) == Body(line) = <<"Sub Main ()\n">>
IsEndSub(line) == Body(line) = <<"End Sub\n">>
IsDim(line) == Len(Body(line)) = 5 /\ Body(line)[1] = "Dim "
IsAssign(line) == Len(Body(line)) >= 4 /\ Body(line)[2] = " = "

\* how many of the lines 2..k (the header is line 1) satisfy P
RECURSIVE Count(_, _)
Count(P(_), k) ==
    IF k < 2 THEN 0
    ELSE Count(P, k - 1) + (IF P(filehandle[k]) THEN 1 ELSE 0)

\* the scope line k was written in: Main after a Sub Main line that no
\* End Sub line follows
RECURSIVE ScopeAt(_)
ScopeAt(k) ==
    IF k <= 2 THEN None
    ELSE IF IsSubMain(filehandle[k - 1]) THEN "Main"
    ELSE IF IsEndSub(filehandle[k - 1]) THEN None
    ELSE ScopeAt(k - 1)

\* the keys the Dim lines of the script declared
DeclaredKeys ==
    {<<Body(filehandle[k])[2], ScopeAt(k)>> :
        k \in {j \in 2..Len(filehandle) : IsDim(filehandle[j])}}

\* what write prefixes at depth d
IndentAt(d) == IF d > 0 THEN d ELSE 0

\* the lines a step appended
Appended == SubSeq(filehandle', Len(filehandle) + 1, Len(filehandle'))
AppendOnly ==
    /\ Len(filehandle') >= Len(filehandle)
    /\ SubSeq(filehandle', 1, Len(filehandle)) = filehandle

-----------------------------------------------------------------------------
(* Block balance. *)

\* the script after the header holds only With and End With lines: the calls
\* so far were start_with and end_with alone
OnlyBlocks ==
    \A k \in 2..Len(filehandle) :
        IsWith(filehandle[k]) \/ IsEndWith(filehandle[k])

\* no End With precedes its With, and every With has its End With
ProperlyMatched ==
    /\ OnlyBlocks
    /\ \A k \in 2..Len(filehandle) : Count(IsEndWith, k) <= Count(IsWith, k)
    /\ Count(IsEndWith, Len(filehandle)) = Count(IsWith, Len(filehandle))

\* C1: after every properly matched sequence of start_with and end_with calls
\* made from depth 0, the indentation depth is 0.
C1_MatchedBlocksEndAtDepthZero == ProperlyMatched => indent_depth = 0

\* two blocks, one nested in the other, opened and closed
C1_Witness ==
    /\ ProperlyMatched
    /\ Len(filehandle) = 5
    /\ IsWith(filehandle[2]) /\ IsWith(filehandle[3])

\* C2: end_with called at depth 0 fails with the depth-underflow violation
\* and appends no End With line.
C2_EndWithAtDepthZeroFails ==
    [][(indent_depth = 0 /\ EndWith) =>
            (raised'.kind # "none" /\ filehandle' = filehandle)]_vars

\* C3: in every state any sequence of writer calls reaches, the indentation
\* depth is a non-negative integer.
C3_DepthNeverNegative == indent_depth \in Nat

-----------------------------------------------------------------------------
(* Declare before assign. *)

NotDeclared(name, scope) ==
    ValueError(<<"Parameter ", name, " in scope ", scope,
                 " did not receive type initialisation.">>)

\* C4: assign_parameter(name, v) fails with the "not declared" error when no
\* earlier initialise_parameter or add_parameter established (name, current
\* scope), changing nothing; after such a declaration it succeeds and the
\* record of (name, current scope) holds v.
C4_AssignNeedsDeclaration ==
    [][\A name \in Names, value \in AssignValues :
        AssignParameter(name, value) =>
            IF <<name, current_scope>> \in DeclaredKeys
                THEN /\ raised' = NoError
                     /\ <<name, current_scope>> \in DOMAIN parameters'
                     /\ parameters'[<<name, current_scope>>].value = value
                ELSE /\ raised' = NotDeclared(name, current_scope)
                     /\ UNCHANGED <<filehandle, parameters>>]_vars

\* x declared as Double by initialise_parameter, then assigned 100
C4_Witness ==
    /\ raised = NoError
    /\ <<"x", None>> \in DOMAIN parameters
    /\ parameters[<<"x", None>>] = [value |-> PyInt(100), type |-> "Double"]
    /\ IsAssign(filehandle[Len(filehandle)])

\* C5: x declared in scope None and x declared in scope Main are two
\* records; assigning or declaring x in one scope leaves the other scope's
\* record, value and type, as it was, and sets the current scope's record.
C5_ScopesAreIndependent ==
    [][\A other \in Scopes :
        (other # current_scope /\ <<"x", other>> \in DOMAIN parameters) =>
            /\ \A value \in ScopeValues :
                (AssignParameter("x", value) /\ raised' = NoError) =>
                    /\ <<"x", other>> \in DOMAIN parameters'
                    /\ parameters'[<<"x", other>>] = parameters[<<"x", other>>]
                    /\ parameters'[<<"x", current_scope>>].value = value
                    /\ parameters'[<<"x", current_scope>>].type
                            = parameters[<<"x", current_scope>>].type
            /\ \A t \in ScopeTypes :
                InitialiseParameter("x", t) =>
                    /\ <<"x", other>> \in DOMAIN parameters'
                    /\ parameters'[<<"x", other>>] = parameters[<<"x", other>>]
                    /\ parameters'[<<"x", current_scope>>].type = t.name]_vars

\* both records exist with different types and values, and the last call
\* assigned x in scope None after x had its value in scope Main
C5_Witness ==
    /\ current_scope = None
    /\ DOMAIN parameters = {<<"x", None>>, <<"x", "Main">>}
    /\ parameters[<<"x", None>>] = [value |-> PyInt(1), type |-> "Integer"]
    /\ parameters[<<"x", "Main">>] = [value |-> PyInt(2), type |-> "Double"]
    /\ IsAssign(filehandle[Len(filehandle)])
    /\ \E k \in 2..Len(filehandle) :
            IsAssign(filehandle[k]) /\ ScopeAt(k) = "Main"

-----------------------------------------------------------------------------
(* Declaring with a value: the inferred type and the 16-bit range. *)

OutOfRange(i) ==
    ValueError(<<"Size of value: ", ToString(i),
                 " cannot be represented by a 16-bit integer, as required by VBA.">>)

Unsupported(kind) ==
    ValueError(<<"Type of the value parameter: ", kind,
                 ", is not supported for VBA type conversion.">>)

DimLine(name, type) == <<"Dim ", name, " As ", type, "\n">>

\* C6: add_parameter(name, v) with no explicit type and an integer v outside
\* [-32768, 32767] fails with the out-of-range error, appends no line and adds
\* no record; -32768 and 32767 are accepted, -32769 and 32768 rejected.
C6_OutOfRangeIntegerRejected ==
    [][\A name \in Names, value \in IntValues :
        AddParameter(name, value, NoDeclareType) =>
            IF value.v \in -32768..32767
                THEN /\ raised' = NoError
                     /\ Len(filehandle') = Len(filehandle) + 2
                     /\ parameters'[<<name, current_scope>>].value = value
                ELSE /\ raised' = OutOfRange(value.v)
                     /\ UNCHANGED <<filehandle, parameters, indent_depth,
                                    current_scope>>]_vars

\* 32767 was accepted for n, and then 32768 was rejected
C6_Witness ==
    /\ raised = OutOfRange(32768)
    /\ DOMAIN parameters = {<<"n", None>>}
    /\ parameters[<<"n", None>>] = [value |-> PyInt(32767), type |-> "Integer"]
    /\ Len(filehandle) = 3

\* C7: an integer outside [-32768, 32767] is rejected on every path that gives
\* an Integer variable a value: add_parameter with the inferred type,
\* add_parameter with the explicit type "Integer", and assign_parameter to a
\* variable declared as Integer.
C7_OutOfRangeRejectedOnEveryPath ==
    [][\A name \in Names, value \in {v \in IntValues : v.v \notin -32768..32767} :
        (\/ AddParameter(name, value, NoDeclareType)
         \/ AddParameter(name, value, StrType("Integer"))
         \/ /\ <<name, current_scope>> \in DOMAIN parameters
            /\ parameters[<<name, current_scope>>].type = "Integer"
            /\ AssignParameter(name, value))
        => (raised'.kind = "ValueError" /\ filehandle' = filehandle)]_vars

\* C8: add_parameter(name, v) with no explicit type and an integer v in
\* [-32768, 32767] infers Integer and appends exactly two lines, the
\* declaration "Dim name As Integer" and then the assignment "name = v", each
\* with the indent write gives at the current depth.
C8_AddIntegerEmitsDimThenAssign ==
    [][\A name \in Names, value \in {v \in IntValues : v.v \in -32768..32767} :
        AddParameter(name, value, NoDeclareType) =>
            /\ AppendOnly
            /\ Len(Appended) = 2
            /\ Body(Appended[1]) = DimLine(name, "Integer")
            /\ Body(Appended[2]) = <<name, " = ", ToString(value.v), "\n">>
            /\ Indent(Appended[1]) = IndentAt(indent_depth)
            /\ Indent(Appended[2]) = IndentAt(indent_depth)
            /\ parameters'[<<name, current_scope>>].type = "Integer"]_vars

\* n = 100 declared inside the entry point: both lines carry one tab
C8_Witness ==
    /\ Len(filehandle) = 4
    /\ IsSubMain(filehandle[2])
    /\ filehandle[3] = <<"\t">> \o DimLine("n", "Integer")
    /\ filehandle[4] = <<"\t", "n", " = ", "100", "\n">>
    /\ parameters = (<<"n", "Main">> :> [value |-> PyInt(100), type |-> "Integer"])

\* C9: with no explicit type add_parameter infers Boolean for a boolean,
\* Double for a float, Integer for an in-range integer and String for text; a
\* value of another kind fails with the unsupported-type error, adds no record
\* and emits no line.
C9_InferredType ==
    [][\A name \in Names, value \in Values :
        AddParameter(name, value, NoDeclareType) =>
            LET declared(type) ==
                    /\ raised' = NoError
                    /\ parameters'[<<name, current_scope>>] =
                            [value |-> value, type |-> type]
                    /\ Body(Appended[1]) = DimLine(name, type)
            IN  CASE value.kind = "bool" -> declared("Boolean")
                  [] value.kind = "float" -> declared("Double")
                  [] value.kind = "int" ->
                        value.v \in -32768..32767 => declared("Integer")
                  [] value.kind = "str" -> declared("String")
                  [] OTHER ->
                        /\ raised' = Unsupported(value.kind)
                        /\ UNCHANGED <<filehandle, parameters>>]_vars

\* True was declared as a Boolean, and then None was refused
C9_Witness ==
    /\ raised = Unsupported("NoneType")
    /\ \E key \in DOMAIN parameters :
            parameters[key] = [value |-> PyBool(TRUE), type |-> "Boolean"]

-----------------------------------------------------------------------------
(* String literals. *)

\* reading a literal as the host language (VBA) does: it starts and ends with
\* a double quote, and a double quote of the text is written twice
NotALiteral == [ok |-> FALSE, text |-> <<>>]

RECURSIVE vba_scan(_, _)
vba_scan(rest, text) ==
    IF rest = <<>> THEN NotALiteral
    ELSE IF Head(rest) # DQuote THEN vba_scan(Tail(rest), Append(text, Head(rest)))
    ELSE IF Len(rest) >= 2 /\ rest[2] = DQuote
        THEN vba_scan(SubSeq(rest, 3, Len(rest)), Append(text, DQuote))
    ELSE IF Len(rest) = 1 THEN [ok |-> TRUE, text |-> text]
    ELSE NotALiteral

vba_parse(literal) ==
    IF literal = <<>> \/ Head(literal) # DQuote THEN NotALiteral
    ELSE vba_scan(Tail(literal), <<>>)

\* C10: for every text, string_repr's result read back as a VBA string
\* literal is the text itself.
C10_StringReprRoundTrip ==
    call.fn = "string_repr" => vba_parse(ret) = [ok |-> TRUE, text |-> call.arg]

-----------------------------------------------------------------------------
(* Literal or raw. *)

\* C11: wrap_nonstr_in_double_quotes returns a string value unchanged, and
\* for every other value the value's default text between double quotes:
\* 3.5 gives "3.5" and True gives "True".
C11_LiteralOrRaw ==
    call.fn = "wrap_nonstr_in_double_quotes" =>
        /\ call.arg.kind = "str" => ret = call.arg.v
        /\ call.arg.kind # "str" =>
                /\ Len(ret) >= 3
                /\ Head(ret) = DQuote /\ ret[Len(ret)] = DQuote
                /\ SubSeq(ret, 2, Len(ret) - 1) = repr(call.arg)
        /\ call.arg = PyFloat(35) => ret = <<DQuote, "3", ".", "5", DQuote>>
        /\ call.arg = PyBool(TRUE) => ret = <<DQuote, "True", DQuote>>
        /\ call.arg = PyInt(100) => ret = <<DQuote, "100", DQuote>>

\* the name of a parameter came back without quotes
C11_Witness ==
    /\ call = [fn |-> "wrap_nonstr_in_double_quotes",
               arg |-> PyStr(<<"paramName">>)]
    /\ ret = <<"paramName">>

-----------------------------------------------------------------------------
(* The lines of the file. *)

\* the fragments that end with a line feed
LineFeeds ==
    {"\n", "Option Explicit\n", "Sub Main ()\n", "Save\n", "End Sub\n",
     "End With\n", ".Name \"myBox\"\n"}

EndsLine(text) == text # <<>> /\ text[Len(text)] \in LineFeeds

\* what reading the file back line by line gives: the written texts joined
\* and cut after every line feed; rest is the line still open
RECURSIVE JoinLines(_, _)
JoinLines(texts, rest) ==
    IF texts = <<>> THEN (IF rest = <<>> THEN <<>> ELSE <<rest>>)
    ELSE IF EndsLine(Head(texts))
        THEN <<rest \o Head(texts)>> \o JoinLines(Tail(texts), <<>>)
        ELSE JoinLines(Tail(texts), rest \o Head(texts))

FileLines == JoinLines(filehandle, <<>>)

\* the script is that of start_with("Box"), write(text), end_with() on a new
\* writer
BoxScript(text) ==
    /\ Len(filehandle) = 4
    /\ Body(filehandle[2]) = <<"With ", "Box", "\n">>
    /\ Body(filehandle[3]) = text
    /\ IsEndWith(filehandle[4])

\* C12 (as stated): start_with("Box"), write('.Name "myBox"'), end_with() on
\* a new writer give exactly three lines after the header: With Box without
\* indentation, .Name "myBox" after one tab, End With without indentation.
C12_BoxBlockOfRawText ==
    BoxScript(<<".Name \"myBox\"">>) =>
        /\ Len(FileLines) = 4
        /\ FileLines[2] = <<"With ", "Box", "\n">>
        /\ Indent(FileLines[3]) = 1
        /\ Body(FileLines[3])[1] = ".Name \"myBox\""
        /\ FileLines[4] = <<"End With\n">>

\* C12 (amended): when the text given to write ends with a line feed,
\* start_with("Box"), write('.Name "myBox"\n'), end_with() on a new writer
\* give exactly three lines after the header: With Box without indentation,
\* .Name "myBox" after exactly one tab, End With without indentation.
C12_BoxBlockOfLine ==
    BoxScript(<<".Name \"myBox\"\n">>) =>
        FileLines = << <<"Option Explicit\n">>,
                       <<"With ", "Box", "\n">>,
                       <<"\t", ".Name \"myBox\"\n">>,
                       <<"End With\n">> >>

C12_Witness ==
    /\ BoxScript(<<".Name \"myBox\"\n">>)
    /\ Len(FileLines) = 4
    /\ indent_depth = 0

-----------------------------------------------------------------------------
(* The entry point. *)

\* C13 (as stated): end_main called while the scope is None fails at once:
\* it raises and appends nothing.
C13_EndMainOutsideMainFails ==
    [][(current_scope = None /\ EndMain) =>
            (raised' # NoError /\ filehandle' = filehandle)]_vars

\* the Sub Main line that an end_main call made now would close
SubMainLines == {k \in 2..Len(filehandle) : IsSubMain(filehandle[k])}
MatchingSubMain == CHOOSE k \in SubMainLines : \A j \in SubMainLines : j <= k

\* as many End With lines as With lines were written after line k
WithsClosedSince(k) ==
    Count(IsWith, Len(filehandle)) - Count(IsWith, k)
        = Count(IsEndWith, Len(filehandle)) - Count(IsEndWith, k)

\* Save at the depth before the call, End Sub one level out
SaveThenEndSub ==
    /\ AppendOnly
    /\ Len(Appended) = 2
    /\ Body(Appended[1]) = <<"Save\n">>
    /\ Indent(Appended[1]) = IndentAt(indent_depth)
    /\ Body(Appended[2]) = <<"End Sub\n">>
    /\ Indent(Appended[2]) = IndentAt(indent_depth - 1)
    /\ indent_depth' = indent_depth - 1

\* C15 (as stated): end_main writes Save at the depth before the call, steps
\* back, and writes End Sub at the new depth, which is the indentation of
\* the matching Sub Main line.
C15_EndSubUnderSubMain ==
    [][(current_scope = "Main" /\ EndMain) =>
            /\ SaveThenEndSub
            /\ Indent(Appended[2]) = Indent(filehandle[MatchingSubMain])]_vars

\* C15 (amended): end_main writes Save at the depth before the call, steps
\* back, and writes End Sub at the new depth; that is the indentation of
\* the matching Sub Main line when every With block opened since that line
\* has been closed.
C15_EndSubUnderSubMainOfClosedBlocks ==
    [][EndMain =>
            /\ SaveThenEndSub
            /\ (current_scope = "Main" /\ WithsClosedSince(MatchingSubMain))
                    => Indent(Appended[2])
                            = Indent(filehandle[MatchingSubMain])]_vars

\* an entry point holding one closed With block has been ended
C15_Witness ==
    /\ Len(filehandle) = 7
    /\ IsSubMain(filehandle[2])
    /\ IsWith(filehandle[3]) /\ IsEndWith(filehandle[5])
    /\ filehandle[6] = <<"\t", "Save\n">>
    /\ filehandle[7] = <<"End Sub\n">>
    /\ indent_depth = 0 /\ current_scope = None

\* C14: the scope is None when the writer is made; start_main sets it to
\* Main and end_main sets it back to None; no other method changes it, and it
\* never holds another value.
C14_ScopeLifecycle ==
    /\ current_scope = None
    /\ [](current_scope \in {None, "Main"})
    /\ [][/\ StartMain => current_scope' = "Main"
          /\ EndMain => current_scope' = None
          /\ current_scope' # current_scope => (StartMain \/ EndMain)]_vars

\* the entry point was entered and left again
C14_Witness ==
    /\ Len(filehandle) = 4
    /\ IsSubMain(filehandle[2]) /\ IsEndSub(filehandle[4])
    /\ current_scope = None

-----------------------------------------------------------------------------
(* The life of a record. *)

\* C16: initialise_parameter on a name the current scope has already declared
\* does not fail: the record takes the new type and no value, no key is
\* added, and one more Dim line with the new type is written.
C16_RedeclareOverwrites ==
    [][\A t \in ScopeTypes :
        (/\ InitialiseParameter("x", t)
         /\ <<"x", current_scope>> \in DOMAIN parameters) =>
            /\ raised' = NoError
            /\ DOMAIN parameters' = DOMAIN parameters
            /\ parameters'[<<"x", current_scope>>]
                    = [value |-> NoneValue, type |-> t.name]
            /\ AppendOnly
            /\ Len(Appended) = 1
            /\ Body(Appended[1]) = DimLine("x", t.name)
            /\ Indent(Appended[1]) = IndentAt(indent_depth)]_vars

\* x was declared Integer, assigned, and declared again as Double
C16_Witness ==
    /\ Len(filehandle) = 4
    /\ Body(filehandle[2]) = DimLine("x", "Integer")
    /\ IsAssign(filehandle[3])
    /\ Body(filehandle[4]) = DimLine("x", "Double")
    /\ parameters[<<"x", None>>] = [value |-> NoneValue, type |-> "Double"]
    /\ raised = NoError

\* C17: no step removes a key of the table; start_main and end_main leave
\* every record as it is; a name that a Dim line declared in the current
\* scope is assigned without failing, also when the entry point was left
\* and entered again since.
C17_RecordsAreKept ==
    [][/\ DOMAIN parameters \subseteq DOMAIN parameters'
       /\ (StartMain \/ EndMain) => parameters' = parameters
       /\ \A value \in ScopeValues :
            (/\ AssignParameter("x", value)
             /\ <<"x", current_scope>> \in DeclaredKeys) =>
                /\ raised' = NoError
                /\ parameters'[<<"x", current_scope>>].value = value]_vars

\* x declared in the entry point, the entry point left and entered again,
\* and x assigned with no second declaration
C17_Witness ==
    /\ Len(filehandle) = 7
    /\ IsSubMain(filehandle[2]) /\ IsDim(filehandle[3])
    /\ IsEndSub(filehandle[5]) /\ IsSubMain(filehandle[6])
    /\ IsAssign(filehandle[7])
    /\ raised = NoError
    /\ current_scope = "Main"
    /\ parameters[<<"x", "Main">>].value = PyInt(1)

-----------------------------------------------------------------------------
(* The emitters. *)

\* a step that raised the validation error and touched nothing of the writer
Rejected ==
    /\ raised'.kind = "AssertionError"
    /\ UNCHANGED <<filehandle, indent_depth, current_scope, parameters>>

Listed(value, options) == value \in Strs(options)

\* C19: Units, ASCIIExport, EigenmodeSolver, Transform, Background, Face and
\* Rotate, called with an option that is not in its list of allowed options,
\* raise the validation error and have made no writer call: the sink, the
\* depth, the scope and the table are as before the call.
C19_UnlistedOptionRejected ==
    [][/\ \A u \in UnitsArgs :
            (/\ ~(/\ Listed(u[1], LengthUnits)
                  /\ Listed(u[2], TimeUnits)
                  /\ Listed(u[3], FrequencyUnits)
                  /\ Listed(u[4], TemperatureUnits))
             /\ EmitUnits(u[1], u[2], u[3], u[4])) => Rejected
       /\ \A a \in ASCIIExportArgs :
            (/\ \/ Given(a.data_mode) /\ ~Listed(a.data_mode, DataModes)
                \/ ~Listed(a.file_type, FileTypes)
             /\ EmitASCIIExport(a)) => Rejected
       /\ \A mesh_type \in EigenmodeMeshTypes :
            (/\ ~Listed(mesh_type, MeshTypes)
             /\ EmitEigenmodeSolver(PyInt(2), mesh_type, PyBool(FALSE),
                                    PyBool(TRUE))) => Rejected
       /\ \A a \in TransformArgs :
            (/\ \/ ~Listed(a.transform_object_type, ObjectOptions)
                \/ ~Listed(a.transform_method, MethodOptions)
             /\ EmitTransform(a)) => Rejected
       /\ \A a \in BackgroundArgs :
            (/\ \/ ~Listed(a.material_type, MaterialTypes)
                \/ Given(a.thermal_type)
                    /\ ~Listed(a.thermal_type, ThermalTypes)
             /\ EmitBackground(a)) => Rejected
       /\ \A a \in FaceArgs :
            (/\ ~Listed(a.mode, {"PickFace", "ExtrudeCurve", "CoverCurve"})
             /\ EmitFace(a)) => Rejected
       /\ \A a \in RotateArgs :
            (/\ ~Listed(a.mode, {"Pointlist", "Picks"})
             /\ EmitRotate(a)) => Rejected]_vars

\* Rotate refused its mode inside the entry point, which is as it was
C19_Witness ==
    /\ raised = AssertionError(
            <<"Provided mode is not supported, must be Pointlist or Picks.">>)
    /\ Len(filehandle) = 2 /\ IsSubMain(filehandle[2])
    /\ indent_depth = 1 /\ current_scope = "Main"

\* the text of one argument
ArgText(value) ==
    IF value.kind = "str" THEN value.v
    ELSE <<DQuote>> \o repr(value) \o <<DQuote>>

\* the arguments of a line, separated by commas, in the order given
RECURSIVE ArgList(_)
ArgList(values) ==
    IF Len(values) = 1 THEN ArgText(values[1])
    ELSE ArgText(values[1]) \o <<", ">> \o ArgList(Tail(values))

\* the step wrote the line that starts with keyword and lists the values
WroteLine(keyword, values) ==
    \E k \in 1..Len(Appended) :
        Body(Appended[k]) = <<keyword>> \o ArgList(values) \o <<"\n">>

\* C20: the lines with several arguments list them in the order given:
\* .Center, .PlaneNormal and .Vector of Transform the components 0, 1, 2;
\* FrequencyRange the minimum and then the maximum; .SetSubvolume of
\* ASCIIExport xmin, xmax, ymin, ymax, zmin, zmax; PickEdgeFromId the name,
\* the edge id and the vertex id.
C20_ArgumentOrder ==
    [][/\ \A a \in TransformArgs :
            (raised' = NoError /\ EmitTransform(a)) =>
                /\ Given(a.center) => WroteLine(".Center ", a.center.v)
                /\ Given(a.plane_normal)
                        => WroteLine(".PlaneNormal ", a.plane_normal.v)
                /\ Given(a.vector) => WroteLine(".Vector ", a.vector.v)
       /\ \A frequency_range \in FrequencyRanges :
            EmitFrequencyRange(frequency_range) =>
                /\ Len(Appended) = 1
                /\ WroteLine("Solver.FrequencyRange ", frequency_range.v)
       /\ \A a \in ASCIIExportArgs :
            (raised' = NoError /\ Given(a.subvolume) /\ EmitASCIIExport(a))
                => WroteLine(".SetSubvolume ",
                        a.subvolume.v[1].v \o a.subvolume.v[2].v
                            \o a.subvolume.v[3].v)
       /\ \A edge_id \in EdgeIds, vertex_id \in VertexIds :
            EmitPickEdgeFromId(S("solid1"), edge_id, vertex_id) =>
                /\ Len(Appended) = 1
                /\ Body(Appended[1]) =
                        <<"Pick.PickEdgeFromId ", DQuote, "solid1", DQuote,
                          ", ">> \o ArgList(<<edge_id, vertex_id>>)
                            \o <<"\n">>]_vars

\* a Transform block with a center given by a parameter name and two numbers
\* and a vector of three numbers
C20_Witness ==
    \E j, k \in 2..Len(filehandle) :
        /\ j < k
        /\ filehandle[j] = <<"\t", ".Center ", "cx", ", ", DQuote, "0",
                             DQuote, ", ", DQuote, "0", ".", "5", DQuote,
                             "\n">>
        /\ filehandle[k] = <<"\t", ".Vector ", DQuote, "7", DQuote, ", ",
                             DQuote, "8", DQuote, ", ", DQuote, "9", DQuote,
                             "\n">>

-----------------------------------------------------------------------------
(* A sink that rejects a write. *)

\* the call whose result on a sound sink is free needs more writes than
\* the k the sink takes
TooMany(k, free) == Ok(free) /\ Len(free.filehandle) > Len(filehandle) + k

\* the call raised the I/O error after the k lines the sink took, which are
\* the first k lines of the call, and appended nothing after them
Cut(k, free) ==
    /\ raised'.kind = "IOError"
    /\ filehandle' = SubSeq(free.filehandle, 1, Len(filehandle) + k)

\* C18: when the sink rejects a write, the call that made it, write itself,
\* any other method or an emitter, ends with the I/O error: the error is
\* not swallowed, the write is not repeated, and no later line of the call
\* is appended.
C18_SinkFailurePropagates ==
    [][\A k \in 0..MaxAccepts :
            /\ \A text \in Texts :
                (WriteOn(k, text) /\ TooMany(k, write(Self, text)))
                    => Cut(k, write(Self, text))
            /\ (StartMainOn(k) /\ TooMany(k, start_main(Self)))
                    => Cut(k, start_main(Self))
            /\ (EndMainOn(k) /\ TooMany(k, end_main(Self)))
                    => Cut(k, end_main(Self))
            /\ \A structure \in Structures :
                (/\ StartWithOn(k, structure)
                 /\ TooMany(k, start_with(Self, structure)))
                    => Cut(k, start_with(Self, structure))
            /\ (EndWithOn(k) /\ TooMany(k, end_with(Self)))
                    => Cut(k, end_with(Self))
            /\ (/\ InitialiseParameterOn(k, "x", StrType("Integer"))
                /\ TooMany(k, initialise_parameter(Self, "x",
                                                   StrType("Integer"))))
                    => Cut(k, initialise_parameter(Self, "x",
                                                   StrType("Integer")))
            /\ (/\ AssignParameterOn(k, "x", PyInt(1))
                /\ TooMany(k, assign_parameter(Self, "x", PyInt(1))))
                    => Cut(k, assign_parameter(Self, "x", PyInt(1)))
            /\ (/\ AddParameterOn(k, "n", PyInt(100), NoDeclareType)
                /\ TooMany(k, add_parameter(Self, "n", PyInt(100),
                                            NoDeclareType)))
                    => Cut(k, add_parameter(Self, "n", PyInt(100),
                                            NoDeclareType))
            /\ (/\ EmitUnitsOn(k, S("mm"), S("ns"), S("GHz"), S("celsius"))
                /\ TooMany(k, Units(Self, S("mm"), S("ns"), S("GHz"),
                                    S("celsius"))))
                    => Cut(k, Units(Self, S("mm"), S("ns"), S("GHz"),
                                    S("celsius")))
      ]_vars

\* end_main wrote Save, the sink rejected End Sub, and the caller has the
\* error
C18_Witness ==
    /\ raised.kind = "IOError"
    /\ Len(filehandle) = 3
    /\ IsSubMain(filehandle[2])
    /\ filehandle[3] = <<"\t", "Save\n">>

-----------------------------------------------------------------------------
(* The documented behaviour of single emitters. *)

\* the step wrote, one after the other, the two lines of a pair of
\* boundary types
WrotePair(low, high, pair) ==
    \E k \in 1..(Len(Appended) - 1) :
        /\ Body(Appended[k]) = <<low, DQuote>> \o pair.v[1].v
                                    \o <<DQuote, "\n">>
        /\ Body(Appended[k + 1]) = <<high, DQuote>> \o pair.v[2].v
                                    \o <<DQuote, "\n">>

\* C21 (as stated): Boundaries with apply_in_all_directions False and
\* z_boundaries = (lo, hi) writes a .Zmin line with lo followed by a .Zmax
\* line with hi, as it writes .Xmin and .Xmax for the x pair and .Ymin and
\* .Ymax for the y pair.
C21_BoundariesWritesZmax ==
    [][\A a \in BoundariesArgs :
        (a.apply_in_all_directions = PyBool(FALSE) /\ EmitBoundaries(a)) =>
            /\ Given(a.x_boundaries)
                    => WrotePair(".Xmin ", ".Xmax ", a.x_boundaries)
            /\ Given(a.y_boundaries)
                    => WrotePair(".Ymin ", ".Ymax ", a.y_boundaries)
            /\ Given(a.z_boundaries)
                    => WrotePair(".Zmin ", ".Zmax ", a.z_boundaries)]_vars

\* the step wrote the line of a keyword and a quoted text
WroteText(keyword, text) ==
    \E k \in 1..Len(Appended) :
        Body(Appended[k]) = <<keyword, DQuote, text, DQuote, "\n">>

\* C22 (as stated): Face with the mode "PickFace" and no curve returns
\* normally, writes a Face block with .Type "PickFace", and writes the
\* .Offset line when an offset is given; the two curve modes alone need a
\* curve.
C22_FaceAcceptsPickFace ==
    [][\A a \in FaceArgs :
        (a.mode = S("PickFace") /\ ~Given(a.curve) /\ EmitFace(a)) =>
            /\ raised' = NoError
            /\ Body(Appended[1]) = <<"With ", "Face", "\n">>
            /\ WroteText(".Type ", "PickFace")
            /\ Given(a.offset) => WroteLine(".Offset ", <<a.offset>>)]_vars

\* C23 (as stated): Background takes the thermal types 'normal' and 'ptc'
\* and no others: with 'ptc' it returns normally and writes
\* .ThermalType "ptc"; with any other text it raises the validation error
\* and writes nothing.
C23_BackgroundThermalTypes ==
    [][\A a \in BackgroundArgs :
        (/\ Listed(a.material_type, MaterialTypes)
         /\ Given(a.thermal_type)
         /\ EmitBackground(a)) =>
            IF Listed(a.thermal_type, {"normal", "ptc"})
                THEN /\ raised' = NoError
                     /\ WroteText(".ThermalType ", a.thermal_type.v[1])
                ELSE Rejected]_vars

\* the numbers in order with a comma between each two
RECURSIVE CommaSeparated(_)
CommaSeparated(nums) ==
    IF nums = <<>> THEN <<>>
    ELSE IF Len(nums) = 1 THEN <<ToString(nums[1].v)>>
    ELSE <<ToString(nums[1].v), ",">> \o CommaSeparated(Tail(nums))

\* C24 (as stated): num_or_list_of_nums_to_str gives for an integer n the
\* text of n between double quotes, and for a list of integers one text
\* between double quotes: the integers in list order with a comma between
\* them and none before the first or after the last.
C24_NumsToStr ==
    call.fn = "num_or_list_of_nums_to_str" =>
        IF call.arg.kind = "int"
            THEN ret = <<DQuote, ToString(call.arg.v), DQuote>>
            ELSE ret = <<DQuote>> \o CommaSeparated(call.arg.v) \o <<DQuote>>

-----------------------------------------------------------------------------
(* Indentation. *)

\* the script of start_main, start_with, write, end_with, end_main on a new
\* writer
EntryWithBlockScript ==
    /\ Len(filehandle) = 7
    /\ IsSubMain(filehandle[2]) /\ IsWith(filehandle[3])
    /\ Body(filehandle[4]) \in BlockTexts
    /\ IsEndWith(filehandle[5])
    /\ Body(filehandle[6]) = <<"Save\n">> /\ IsEndSub(filehandle[7])

\* C25 (as stated): every line a method appends starts with as many tabs as
\* the depth at the moment it is written: the depth before the call for
\* write, start_main, start_with and the Save line, one less for End With
\* and End Sub; the lines of start_main, start_with, write, end_with,
\* end_main on a new writer have the indents 0, 1, 2, 1, 1, 0.
C25_IndentIsDepth ==
    /\ [](EntryWithBlockScript =>
            [k \in 2..7 |-> Indent(filehandle[k])]
                = (2 :> 0) @@ (3 :> 1) @@ (4 :> 2) @@ (5 :> 1) @@ (6 :> 1)
                    @@ (7 :> 0))
    /\ [][/\ (\E text \in BlockTexts : Write(text))
                => Indent(Appended[1]) = indent_depth
          /\ StartMain => Indent(Appended[1]) = indent_depth
          /\ (\E structure \in Structures : StartWith(structure))
                => Indent(Appended[1]) = indent_depth
          /\ EndWith => Indent(Appended[1]) = indent_depth - 1
          /\ EndMain => /\ Indent(Appended[1]) = indent_depth
                        /\ Indent(Appended[2]) = indent_depth - 1]_vars

-----------------------------------------------------------------------------
(* The layout of the emitters' output. *)

\* the emitters that write a With block, and those that write one line
BlockEmitters ==
    {"Ellipse", "Line", "Polygon", "TrimCurves", "Face", "Rotate",
     "Transform", "Units", "ASCIIExport", "EigenmodeSolver", "Background",
     "Boundaries"}
LineEmitters ==
    {"FileNew", "Save", "Add", "PickFaceFromId", "PickEdgeFromId",
     "SelectTreeItem", "DisableInteraction", "FrequencyRange"}

\* the step appended one With line, then lines that open or close no block,
\* then one End With line; the With and End With lines are indented for the
\* depth before the step and the lines between them for one level more
BlockLaidOut ==
    LET n == Len(Appended)
    IN  /\ AppendOnly
        /\ n >= 2
        /\ IsWith(Appended[1]) /\ IsEndWith(Appended[n])
        /\ Indent(Appended[1]) = IndentAt(indent_depth)
        /\ Indent(Appended[n]) = IndentAt(indent_depth)
        /\ \A k \in 2..(n - 1) :
            /\ ~IsWith(Appended[k]) /\ ~IsEndWith(Appended[k])
            /\ Indent(Appended[k]) = IndentAt(indent_depth + 1)

PointLine(keyword, point) ==
    <<keyword>> \o ArgList(<<point.v[1], point.v[2]>>) \o <<"\n">>

\* a list of n times False
AllAbsolute(n) == PyListOf([i \in 1..n |-> PyBool(FALSE)])

\* C27: Polygon writes, after the .Point line of start_point, one line per
\* element of next_points, in the order of the list: .RLine x, y when
\* which_relative[i] is True and .LineTo x, y otherwise, and then .Create;
\* which_relative = None gives what a list of False of the same length
\* gives; with an empty next_points, or a which_relative of another length,
\* the call raises the validation error and writes nothing.
C27_PolygonConnectingLines ==
    [][(call'.fn = "Polygon" /\ EmitPolygon(call'.arg)) =>
            LET a == call'.arg
                points == a.next_points.v
                n == Len(points)
                relative == a.which_relative
            IN  IF n = 0 \/ (Given(relative) /\ Len(relative.v) # n)
                    THEN Rejected
                ELSE /\ raised' = NoError
                     /\ AppendOnly
                     /\ Len(Appended) = n + 7
                     /\ Body(Appended[5]) = PointLine(".Point ", a.start_point)
                     /\ \A i \in 1..n :
                            Body(Appended[5 + i]) =
                                PointLine(IF Given(relative)
                                             /\ relative.v[i] = PyBool(TRUE)
                                            THEN ".RLine " ELSE ".LineTo ",
                                          points[i])
                     /\ Body(Appended[n + 6]) = <<".Create", "\n">>
                     /\ ~Given(relative) =>
                            Polygon(Self, a) =
                                Polygon(Self, [a EXCEPT !.which_relative =
                                                    AllAbsolute(n)])]_vars

\* Polygon has written a relative and then an absolute connecting point
C27_Witness ==
    /\ call.fn = "Polygon" /\ raised = NoError
    /\ \E k \in 2..(Len(filehandle) - 1) :
        /\ Body(filehandle[k]) = PointLine(".RLine ", NextPoint(1))
        /\ Body(filehandle[k + 1]) = PointLine(".LineTo ", NextPoint(2))

-----------------------------------------------------------------------------
(* A failed assignment. *)

\* C28: assign_parameter of a name that is not declared in the current scope
\* raises and changes nothing: the table, the depth, the scope and the sink
\* are those before the call, and every later call does what it would have
\* done without the failed one.
C28_FailedAssignChangesNothing ==
    [][\A name \in Names, value \in AssignValues :
        (/\ <<name, current_scope>> \notin DOMAIN parameters
         /\ AssignParameter(name, value)) =>
            /\ raised' = NotDeclared(name, current_scope)
            /\ UNCHANGED <<filehandle, closed, parameters, indent_depth,
                           current_scope>>
            /\ Self' = Self
            /\ \A later \in Names :
                /\ assign_parameter(Self, later, value)'
                        = assign_parameter(Self, later, value)
                /\ add_parameter(Self, later, value, NoDeclareType)'
                        = add_parameter(Self, later, value, NoDeclareType)
            /\ start_with(Self, "Box")' = start_with(Self, "Box")
            /\ end_main(Self)' = end_main(Self)]_vars

\* x is declared outside Main; inside Main, assigning x has failed
C28_Witness ==
    /\ raised = NotDeclared("x", "Main")
    /\ current_scope = "Main" /\ indent_depth = 1
    /\ <<"x", None>> \in DOMAIN parameters
    /\ IsSubMain(filehandle[Len(filehandle)])

-----------------------------------------------------------------------------
(* The writer after a rejected write. *)

\* the call ended with the I/O error of a rejected write
WriteRejected == raised'.kind = "IOError"

\* C29 (as stated): a method in which the sink rejects a write leaves the
\* writer as it was before the call: the depth is unchanged after a failed
\* start_with, end_with, start_main or end_main, and the table is unchanged
\* after a failed initialise_parameter, assign_parameter or add_parameter.
C29_RejectedWriteKeepsState ==
    [][WriteRejected => \A k \in 0..MaxAccepts :
        /\ (\/ StartMainOn(k) \/ EndMainOn(k) \/ EndWithOn(k)
            \/ \E structure \in Structures : StartWithOn(k, structure))
                => indent_depth' = indent_depth
        /\ (\/ InitialiseParameterOn(k, "x", StrType("Integer"))
            \/ AssignParameterOn(k, "x", PyInt(1))
            \/ AddParameterOn(k, "n", PyInt(100), NoDeclareType))
                => parameters' = parameters]_vars

-----------------------------------------------------------------------------
(* Scope and depth of well-formed scripts. *)

\* the calls that wrote the lines 2..k, read as a script: ok while Sub Main
\* and End Sub alternate, Sub Main first, no End With comes without an open
\* With of the same entry block (or of none), and End Sub comes with every
\* With of its entry block closed; main while an entry block is open; open
\* the With blocks that are open; base those that were open at Sub Main
RECURSIVE Script(_)
Script(k) ==
    IF k < 2 THEN [ok |-> TRUE, main |-> FALSE, open |-> 0, base |-> 0]
    ELSE LET before == Script(k - 1)
             line == filehandle[k]
         IN  IF IsSubMain(line)
                THEN [ok |-> before.ok /\ ~before.main, main |-> TRUE,
                      open |-> before.open, base |-> before.open]
             ELSE IF IsEndSub(line)
                THEN [ok |-> before.ok /\ before.main
                                /\ before.open = before.base,
                      main |-> FALSE, open |-> before.open, base |-> 0]
             ELSE IF IsWith(line)
                THEN [before EXCEPT !.open = @ + 1]
             ELSE IF IsEndWith(line)
                THEN [before EXCEPT !.ok = @ /\ before.open > before.base,
                                    !.open = @ - 1]
             ELSE before

\* C30: after calls in which start_main and end_main alternate, start_main
\* first, and the With blocks are matched and closed before the end_main of
\* the entry block they were opened in, the scope is Main exactly while the
\* entry block is open, and the depth is the number of open With blocks,
\* plus one while the scope is Main.
C30_ScopeAndDepthOfWellFormedScripts ==
    LET script == Script(Len(filehandle))
    IN  script.ok =>
            /\ current_scope = "Main" <=> script.main
            /\ current_scope = None <=> ~script.main
            /\ indent_depth = script.open
                                + (IF current_scope = "Main" THEN 1 ELSE 0)

\* a second entry block is open, after one that was closed, with a With
\* block open inside it
C30_Witness ==
    /\ Script(Len(filehandle)).ok
    /\ Count(IsEndSub, Len(filehandle)) = 1
    /\ Count(IsSubMain, Len(filehandle)) = 2
    /\ Script(Len(filehandle)).open = 1
    /\ current_scope = "Main" /\ indent_depth = 2

=============================================================================
